---- MODULE Spec2Model ----
(***************************************************************************)
(* Model of the Turboshaft WasmGC type analysis                            *)
(* (src/compiler/turboshaft/wasm-gc-type-reducer.cc): the fixpoint driver  *)
(* WasmGCTypeAnalyzer::Run, the snapshot seeding rules, the per-operation  *)
(* transfer functions, the branch refinement and the alias resolver.       *)
(***************************************************************************)
EXTENDS Integers, Sequences, FiniteSets, TLC

(***************************************************************************)
(* Bounds of the model.                                                    *)
(***************************************************************************)
\* Largest generation the traversal iterator may hand out (1 = first visit).
MaxGeneration == 4

(***************************************************************************)
(* wasm::ValueType: a heap type with a nullability bit, plus the two       *)
(* distinguished values ValueType() (no knowledge) and kWasmBottom.        *)
(* Heap hierarchy of the modelled module: none <: S1 <: S <: any and       *)
(* none <: T <: any.                                                       *)
(***************************************************************************)
Heaps == {"any", "S", "S1", "T", "none"}

Unknown == <<"void", FALSE>>

kWasmBottom == <<"bottom", FALSE>>

RefTypes == Heaps \X BOOLEAN

Types == RefTypes \cup {Unknown, kWasmBottom}

Ref(h) == <<h, FALSE>>

RefNull(h) == <<h, TRUE>>

is_object_reference(t) == t \in RefTypes

is_nullable(t) == is_object_reference(t) /\ t[2]

is_non_nullable(t) == is_object_reference(t) /\ ~t[2]

is_bottom(t) == t = kWasmBottom

is_uninhabited(t) == is_bottom(t) \/ (is_non_nullable(t) /\ t[1] = "none")

AsNonNull(t) == IF is_nullable(t) THEN Ref(t[1]) ELSE t

IsHeapSubtypeOf(h1, h2) ==
  \/ h1 = h2
  \/ h1 = "none"
  \/ h2 = "any"
  \/ (h1 = "S1" /\ h2 = "S")

IsSubtypeOf(t1, t2) ==
  IF t1 = t2 THEN TRUE
  ELSE IF ~is_object_reference(t1) \/ ~is_object_reference(t2) THEN FALSE
  ELSE /\ (is_nullable(t1) => is_nullable(t2))
       /\ IsHeapSubtypeOf(t1[1], t2[1])

ToNullSentinel(t) == RefNull("none")

CommonAncestor(h1, h2) ==
  IF IsHeapSubtypeOf(h1, h2) THEN h2
  ELSE IF IsHeapSubtypeOf(h2, h1) THEN h1
  ELSE "any"

Union(t1, t2) ==
  IF ~is_object_reference(t1) \/ ~is_object_reference(t2)
  THEN (IF t1 = t2 THEN t1 ELSE kWasmBottom)
  ELSE <<CommonAncestor(t1[1], t2[1]), t1[2] \/ t2[2]>>

\* intersect(t, t) = t and intersect(unknown, t) = t; the intersection of
\* disjoint types, and of a type with bottom, is bottom.
Intersection(t1, t2) ==
  IF t1 = t2 THEN t1
  ELSE IF t1 = Unknown THEN t2
  ELSE IF t2 = Unknown THEN t1
  ELSE IF ~is_object_reference(t1) \/ ~is_object_reference(t2)
  THEN kWasmBottom
  ELSE LET nullable == t1[2] /\ t2[2] IN
       IF ~nullable /\ (t1[1] = "none" \/ t2[1] = "none") THEN kWasmBottom
       ELSE IF IsHeapSubtypeOf(t1[1], t2[1]) THEN <<t1[1], nullable>>
       ELSE IF IsHeapSubtypeOf(t2[1], t1[1]) THEN <<t2[1], nullable>>
       ELSE IF ~nullable THEN kWasmBottom
       ELSE ToNullSentinel(t1)

(***************************************************************************)
(* The graph under analysis.  An operation is a record: its opcode, its    *)
(* inputs (OpIndex values), the type it carries (cast/check target,        *)
(* declared type, field type, ...), its parameter index and, for block     *)
(* terminators, its destination blocks (Branch: <<if_true, if_false>>).    *)
(* A block is a record: its kind, its predecessors in original order       *)
(* (the last one is LastPredecessor), its operations in program order,     *)
(* its dominator-tree children from LastChild along NeighboringChild, and  *)
(* the header of the innermost loop that contains it.                      *)
(***************************************************************************)
NoBlock == -1

kWasmInstanceParameterIndex == 0

MkOp(opc, ins, t) ==
  [opcode |-> opc, in |-> ins, ty |-> t, pidx |-> 0, dst |-> <<>>]

MkParameter(i, t) ==
  [opcode |-> "Parameter", in |-> <<>>, ty |-> t, pidx |-> i, dst |-> <<>>]

MkBranch(c, t, f) ==
  [opcode |-> "Branch", in |-> <<c>>, ty |-> Unknown, pidx |-> 0,
   dst |-> <<t, f>>]

MkGoto(d) ==
  [opcode |-> "Goto", in |-> <<>>, ty |-> Unknown, pidx |-> 0, dst |-> <<d>>]

MkBlock(k, ps, os, ch, lh) ==
  [kind |-> k, preds |-> ps, ops |-> os, children |-> ch, header |-> lh]

\* Declared types the modelled programs draw from.
DeclTypes == {RefNull("any"), RefNull("S"), Ref("S1"), RefNull("T")}

\* Operation 1 of the entry block of a diamond: a pass-through of the
\* parameter (operation 0) of declared type pt, or an unrelated value.
DiamondAliasOps(pt) ==
  {MkOp("WasmTypeCast", <<0>>, Ref("S")),
   MkOp("AssertNotNull", <<0>>, pt),
   MkOp("WasmTypeAnnotation", <<0>>, RefNull("S")),
   MkOp("GlobalGet", <<>>, RefNull("S")),
   MkOp("Other", <<>>, Unknown)}

\* The static type of operation 1 of a diamond (a value of an operation
\* without transfer rule, such as a call result, is declared anyref).
StaticTypeOf(al, pt) ==
  IF al.opcode = "AssertNotNull" THEN AsNonNull(pt)
  ELSE IF al.opcode = "WasmTypeAnnotation" THEN pt
  ELSE IF al.opcode = "Other" THEN RefNull("any")
  ELSE al.ty

\* The branch condition of a diamond (operation 2).
DiamondConds(pt, al) ==
  {MkOp("IsNull", <<0>>, pt), MkOp("IsNull", <<1>>, StaticTypeOf(al, pt)),
   MkOp("WasmTypeCheck", <<1>>, Ref("S")),
   MkOp("WasmTypeCheck", <<0>>, RefNull("S1")),
   MkOp("Other", <<>>, Unknown)}

\* The operation of a diamond's arm: it defines the arm's phi input.
ArmOps ==
  {MkOp("Null", <<>>, RefNull("S")),
   MkOp("GlobalGet", <<>>, RefNull("T")),
   MkOp("WasmTypeCast", <<1>>, Ref("S1")),
   MkOp("StructGet", <<0>>, RefNull("S"))}

\* The operation after the phi of the merge block.
MergeOps ==
  {MkOp("StructSet", <<8>>, Unknown),
   MkOp("WasmTypeCheck", <<8>>, Ref("S"))}

\*   B0: x = Parameter; al; cond; Branch(cond, B1, B2)
\*   B1: opT; Goto B3        B2: opF; Goto B3
\*   B3: Phi(opT, opF); opM; Return
DiamondGraph(pt, al, cond, opT, opF, opM) ==
  [ops |-> <<MkParameter(1, pt), al, cond, MkBranch(2, 1, 2),
             opT, MkGoto(3),
             opF, MkGoto(3),
             MkOp("Phi", <<4, 6>>, Unknown), opM, MkOp("Other", <<>>, Unknown)>>,
   blocks |-> <<MkBlock("branch_target", <<>>, <<0, 1, 2, 3>>, <<3, 2, 1>>, NoBlock),
                MkBlock("branch_target", <<0>>, <<4, 5>>, <<>>, NoBlock),
                MkBlock("branch_target", <<0>>, <<6, 7>>, <<>>, NoBlock),
                MkBlock("merge", <<1, 2>>, <<8, 9, 10>>, <<>>, NoBlock)>>]

DiamondGraphs ==
  UNION {UNION {{DiamondGraph(pt, al, cond, opT, opF, opM) :
                   cond \in DiamondConds(pt, al),
                   opT \in ArmOps, opF \in ArmOps, opM \in MergeOps} :
                al \in DiamondAliasOps(pt)} : pt \in DeclTypes}

\* Operation 8 of a loop: the value that arrives over the backedge.
LoopBodyOps ==
  {MkOp("GlobalGet", <<>>, RefNull("S")),
   MkOp("GlobalGet", <<>>, Ref("T")),
   MkOp("WasmTypeCast", <<4>>, Ref("S1")),
   MkOp("StructGet", <<4>>, RefNull("any")),
   MkOp("WasmAllocateStruct", <<>>, Ref("S1")),
   MkOp("WasmRefFunc", <<>>, Ref("T"))}

\* The branch condition of a loop header (operation 6).
LoopConds ==
  {MkOp("IsNull", <<4>>, RefNull("any")),
   MkOp("WasmTypeCheck", <<4>>, Ref("S")),
   MkOp("WasmTypeCheck", <<5>>, RefNull("S1")),
   MkOp("Other", <<>>, Unknown)}

\* Operation 2 of the entry block of a loop.
LoopEntryOps ==
  {MkOp("GlobalGet", <<>>, RefNull("S1")),
   MkOp("Null", <<>>, RefNull("T")),
   MkOp("WasmTypeCast", <<1>>, Ref("T"))}

\* Operation 5 of a loop: a second phi, fed by the first one over the
\* backedge, or no phi.
LoopSecondOps ==
  {MkOp("Phi", <<2, 4>>, Unknown), MkOp("Other", <<>>, Unknown)}

\*   B0: instance = Parameter 0; a = Parameter 1; c; Goto B1
\*   B1: p = Phi(a, b); q; cond; Branch(cond, B2, B3) or (B3, B2)
\*   B2: b; Goto B1 (the backedge)
\*   B3: ArrayLength(q), or ArrayLength(p) when q is no phi
LoopGraph(ta, c, q, cond, b, bodyOnTrue) ==
  [ops |-> <<MkParameter(kWasmInstanceParameterIndex, Unknown),
             MkParameter(1, ta), c, MkGoto(1),
             MkOp("Phi", <<1, 8>>, Unknown), q,
             cond,
             IF bodyOnTrue THEN MkBranch(6, 2, 3) ELSE MkBranch(6, 3, 2),
             b, MkGoto(1),
             MkOp("ArrayLength", <<IF q.opcode = "Phi" THEN 5 ELSE 4>>,
                  Unknown)>>,
   blocks |-> <<MkBlock("branch_target", <<>>, <<0, 1, 2, 3>>, <<1>>, NoBlock),
                MkBlock("loop", <<0, 2>>, <<4, 5, 6, 7>>, <<3, 2>>, NoBlock),
                MkBlock("branch_target", <<1>>, <<8, 9>>, <<>>, 1),
                MkBlock("branch_target", <<1>>, <<10>>, <<>>, NoBlock)>>]

LoopGraphs ==
  UNION {{LoopGraph(ta, c, q, cond, b, t) :
            ta \in DeclTypes, c \in LoopEntryOps,
            cond \in {x \in LoopConds : x.in = <<5>> => q.opcode = "Phi"},
            b \in LoopBodyOps, t \in BOOLEAN} : q \in LoopSecondOps}

\* Operations of a loop inside the null arm of a branch.
DeadLoopBodyOps ==
  {MkOp("GlobalGet", <<>>, Ref("T")),
   MkOp("WasmAllocateStruct", <<>>, Ref("S1")),
   MkOp("WasmTypeCast", <<5>>, Ref("S1"))}

\*   B0: x = Parameter 1; n = IsNull(x); Branch(n, B1, B4)
\*   B1: a = GlobalGet; Goto B2
\*   B2: p = Phi(a, b); cond; Branch(cond, B3, B5)
\*   B3: b; Goto B2 (the backedge)
\*   B4: Return        B5: StructSet(p)
DeadLoopGraph(tx, ta, cond, b) ==
  [ops |-> <<MkParameter(1, tx), MkOp("IsNull", <<0>>, tx), MkBranch(1, 1, 4),
             MkOp("GlobalGet", <<>>, ta), MkGoto(2),
             MkOp("Phi", <<3, 8>>, Unknown), cond, MkBranch(6, 3, 5),
             b, MkGoto(2),
             MkOp("Other", <<>>, Unknown),
             MkOp("StructSet", <<5>>, Unknown)>>,
   blocks |-> <<MkBlock("branch_target", <<>>, <<0, 1, 2>>, <<4, 1>>, NoBlock),
                MkBlock("branch_target", <<0>>, <<3, 4>>, <<2>>, NoBlock),
                MkBlock("loop", <<1, 3>>, <<5, 6, 7>>, <<5, 3>>, NoBlock),
                MkBlock("branch_target", <<2>>, <<8, 9>>, <<>>, 2),
                MkBlock("branch_target", <<0>>, <<10>>, <<>>, NoBlock),
                MkBlock("branch_target", <<2>>, <<11>>, <<>>, NoBlock)>>]

DeadLoopGraphs ==
  {DeadLoopGraph(tx, ta, cond, b) :
     tx \in {Ref("S1"), RefNull("S")}, ta \in {RefNull("S"), Ref("S1"), RefNull("T")},
     cond \in {MkOp("WasmTypeCheck", <<5>>, Ref("S")), MkOp("Other", <<>>, Unknown)},
     b \in DeadLoopBodyOps}

\* The operation of an arm of a switch: it defines the arm's phi input.
SwitchArmOps ==
  {MkOp("Null", <<>>, RefNull("S")),
   MkOp("GlobalGet", <<>>, Ref("T")),
   MkOp("WasmTypeCast", <<0>>, Ref("S1")),
   MkOp("Other", <<>>, Unknown)}

\*   B0: x = Parameter 1; Switch(B1, B2, B3)
\*   Bi: oi; Goto B4   (i = 1, 2, 3)
\*   B4: Phi(o1, o2, o3); Return
SwitchGraph(pt, o1, o2, o3) ==
  [ops |-> <<MkParameter(1, pt),
             [opcode |-> "Switch", in |-> <<>>, ty |-> Unknown, pidx |-> 0,
              dst |-> <<1, 2, 3>>],
             o1, MkGoto(4), o2, MkGoto(4), o3, MkGoto(4),
             MkOp("Phi", <<2, 4, 6>>, Unknown), MkOp("Other", <<>>, Unknown)>>,
   blocks |-> <<MkBlock("branch_target", <<>>, <<0, 1>>, <<4, 3, 2, 1>>, NoBlock),
                MkBlock("branch_target", <<0>>, <<2, 3>>, <<>>, NoBlock),
                MkBlock("branch_target", <<0>>, <<4, 5>>, <<>>, NoBlock),
                MkBlock("branch_target", <<0>>, <<6, 7>>, <<>>, NoBlock),
                MkBlock("merge", <<1, 2, 3>>, <<8, 9>>, <<>>, NoBlock)>>]

SwitchGraphs ==
  {SwitchGraph(pt, o1, o2, o3) :
     pt \in {RefNull("any"), RefNull("T"), Ref("S1")},
     o1 \in SwitchArmOps, o2 \in SwitchArmOps, o3 \in SwitchArmOps}

\* The operation that defines the forward-edge input of a chain loop.
ChainEntryOps ==
  {MkOp("WasmTypeCast", <<0>>, Ref("T")),
   MkOp("WasmTypeCast", <<0>>, Ref("S")),
   MkOp("Null", <<>>, RefNull("S"))}

ChainBodyOps ==
  {MkOp("GlobalGet", <<>>, Ref("T")),
   MkOp("GlobalGet", <<>>, RefNull("S")),
   MkOp("WasmTypeCast", <<5>>, Ref("S1"))}

\*   B0: x = Parameter 1; y; cond; Branch(cond, B1, B4)
\*   B1: Goto B2
\*   B2: p = Phi(y, b); Branch(cond, B3, B5)
\*   B3: b; Goto B2 (the backedge)
\*   B4: Return        B5: exit operation
ChainLoopGraph(tx, y, b, e) ==
  [ops |-> <<MkParameter(1, tx), y, MkOp("Other", <<>>, Unknown),
             MkBranch(2, 1, 4),
             MkGoto(2),
             MkOp("Phi", <<1, 7>>, Unknown), MkBranch(2, 3, 5),
             b, MkGoto(2),
             MkOp("Other", <<>>, Unknown),
             e>>,
   blocks |-> <<MkBlock("branch_target", <<>>, <<0, 1, 2, 3>>, <<4, 1>>, NoBlock),
                MkBlock("branch_target", <<0>>, <<4>>, <<2>>, NoBlock),
                MkBlock("loop", <<1, 3>>, <<5, 6>>, <<5, 3>>, NoBlock),
                MkBlock("branch_target", <<2>>, <<7, 8>>, <<>>, 2),
                MkBlock("branch_target", <<0>>, <<9>>, <<>>, NoBlock),
                MkBlock("branch_target", <<2>>, <<10>>, <<>>, NoBlock)>>]

ChainLoopGraphs ==
  {ChainLoopGraph(tx, y, b, e) :
     tx \in {RefNull("S"), Ref("S1")}, y \in ChainEntryOps, b \in ChainBodyOps,
     e \in {MkOp("StructSet", <<5>>, Unknown), MkOp("Other", <<>>, Unknown)}}

Graphs ==
  DiamondGraphs \cup LoopGraphs \cup DeadLoopGraphs \cup SwitchGraphs
    \cup ChainLoopGraphs

(***************************************************************************)
(* The state of the analysis.                                              *)
(***************************************************************************)
VARIABLES
  graph,                   \* graph_: the graph under analysis (never changes)
  stack_, visited_, curr_, \* the AnalyzerIterator
  pc,                      \* the position of Run
  block,                   \* Run's local `block`
  current_block_,          \* WasmGCTypeAnalyzer::current_block_
  opPos,                   \* ProcessOperations' position in the block
  active,                  \* whether types_table_ has an unsealed snapshot
  types_table_,            \* the content of the snapshot table
  merge_values_,           \* the predecessor snapshots of the active merge
  block_to_snapshot_,      \* per block: <<>> or <<its recorded snapshot>>
  block_is_unreachable_,   \* the set of blocks flagged unreachable
  input_type_map_,         \* per operation: <<>> or <<its input type>>
  is_first_loop_header_evaluation_,
  snapshot,                \* Run's local `snapshot` of line 32
  needs_revisit            \* Run's local `needs_revisit`

(***************************************************************************)
(* LoadStoreSimplificationReducer (load-store-simplification-reducer.h).   *)
(*                                                                         *)
(* Values.  An int32_t is an integer of kMinInt .. kMaxInt.  A WordPtr     *)
(* value is a 64-bit word, kept as its four 16-bit limbs, least            *)
(* significant first, so that the word arithmetic of the emitted           *)
(* operations wraps at 2^64 as the machine's does.                         *)
(***************************************************************************)
kMaxInt == 2147483647

kMinInt == (-kMaxInt) - 1

Limb == 2 ^ 16

\* The word of an int32_t, sign-extended (what an int32_t argument becomes
\* when it is passed as a WordPtr constant).
WordFromInt32(n) ==
  LET ext == IF n < 0 THEN Limb - 1 ELSE 0
  IN <<n % Limb, (n \div Limb) % Limb, ext, ext>>

WordAdd(a, b) ==
  LET s1 == a[1] + b[1]
      s2 == a[2] + b[2] + (s1 \div Limb)
      s3 == a[3] + b[3] + (s2 \div Limb)
      s4 == a[4] + b[4] + (s3 \div Limb)
  IN <<s1 % Limb, s2 % Limb, s3 % Limb, s4 % Limb>>

WordShl(a, k) ==
  LET p1 == a[1] * (2 ^ k)
      p2 == a[2] * (2 ^ k) + (p1 \div Limb)
      p3 == a[3] * (2 ^ k) + (p2 \div Limb)
      p4 == a[4] * (2 ^ k) + (p3 \div Limb)
  IN <<p1 % Limb, p2 % Limb, p3 % Limb, p4 % Limb>>

\* kHeapObjectTag: the low bit every tagged pointer carries.
kHeapObjectTag == 1

(***************************************************************************)
(* Operations the reducer emits.  An operation is a record: whether it is  *)
(* a constant of the output graph (what matcher_ can see) and the word it  *)
(* evaluates to.  `folded` is whether the assembler below the reducer      *)
(* folds an operation on a constant into a constant: the reducer does not  *)
(* control it, so both outcomes are modelled.                              *)
(***************************************************************************)
IntPtrConstant(n) == [constant |-> TRUE, value |-> WordFromInt32(n)]

WordPtrShiftLeft(i, k, folded) ==
  [constant |-> i.constant /\ folded, value |-> WordShl(i.value, k)]

WordPtrAdd(i, n, folded) ==
  [constant |-> i.constant /\ folded,
   value |-> WordAdd(i.value, WordFromInt32(n))]

\* A base is a record: its representation and the word it evaluates to.
\* The bitcast changes the representation and keeps the bits.
BitcastHeapObjectToWordPtr(b) == [rep |-> "WordPtr", value |-> b.value]

MatchIntegralZero(i) == i.constant /\ i.value = WordFromInt32(0)

(***************************************************************************)
(* LoadStoreSimplificationConfiguration: the two variants of the #if.      *)
(***************************************************************************)
NeedsUntaggedBaseConfiguration ==
  [kNeedsUntaggedBase |-> TRUE, kMinOffset |-> 1, kMaxOffset |-> 0,
   kMaxElementSizeLog2 |-> 0]

TaggedBaseConfiguration ==
  [kNeedsUntaggedBase |-> FALSE, kMinOffset |-> kMinInt + 1,
   kMaxOffset |-> kMaxInt, kMaxElementSizeLog2 |-> 3]

LoadStoreSimplificationConfiguration ==
  {NeedsUntaggedBaseConfiguration, TaggedBaseConfiguration}

(***************************************************************************)
(* The state of the reducer: the operands of the operation being reduced   *)
(* (the by-reference parameters of SimplifyLoadStore, the by-value         *)
(* parameters of REDUCE(AtomicWord32Pair)).                                *)
(***************************************************************************)
VARIABLES
  configuration,           \* the variant of the build (never changes)
  lowering_enabled_,       \* LoadStoreSimplificationReducer::lowering_enabled_
  reducer_pc,              \* which REDUCE method is about to run
  base,                    \* OpIndex base
  index,                   \* OptionalOpIndex index: <<>> or <<operation>>
  kind,                    \* LoadOp::Kind / AtomicWord32PairOp::Kind
  offset,                  \* int32_t offset
  element_size_log2        \* uint8_t element_size_log2

reducer_vars ==
  <<configuration, lowering_enabled_, reducer_pc, base, index, kind, offset,
    element_size_log2>>

\* The operands as one record.
Operands ==
  [base |-> base, index |-> index, kind |-> kind, offset |-> offset,
   element_size_log2 |-> element_size_log2]

CanEncodeOffset(o, tagged_base) ==
  LET min == configuration.kMinOffset
               + (IF tagged_base THEN kHeapObjectTag ELSE 0)
  IN min <= o /\ o <= configuration.kMaxOffset

CanEncodeAtomic(i, o) == ~(i # <<>> /\ o # 0)

(***************************************************************************)
(* SimplifyLoadStore, statement by statement.  `a` holds the operands on   *)
(* entry and the result is the operands on return.  `overflowed` is the    *)
(* value the build leaves in offset when `offset -= kHeapObjectTag`        *)
(* overflows int32_t (undefined behaviour: any int32_t).                   *)
(***************************************************************************)
ShiftedIndex(a, folded) ==
  IF a.element_size_log2 > configuration.kMaxElementSizeLog2
    THEN [a EXCEPT !.index =
                     <<WordPtrShiftLeft(a.index[1], a.element_size_log2,
                                        folded)>>,
                   !.element_size_log2 = 0]
    ELSE a

UntaggedBase(a, overflowed) ==
  IF configuration.kNeedsUntaggedBase /\ a.kind.tagged_base
    THEN [a EXCEPT !.kind.tagged_base = FALSE,
                   !.offset = IF kMinInt + kHeapObjectTag <= a.offset
                                THEN a.offset - kHeapObjectTag
                                ELSE overflowed,
                   !.base = BitcastHeapObjectToWordPtr(a.base)]
    ELSE a

NeedsIndexOnly(a) ==
  \/ ~CanEncodeOffset(a.offset, a.kind.tagged_base)
  \/ a.kind.is_atomic /\ ~CanEncodeAtomic(a.index, a.offset)

OffsetAsIndex(a) ==
  IF a.index = <<>> \/ MatchIntegralZero(a.index[1])
    THEN [a EXCEPT !.index = <<IntPtrConstant(a.offset)>>,
                   !.element_size_log2 = 0,
                   !.offset = 0]
    ELSE a

ScaledIndex(a, folded) ==
  IF a.element_size_log2 # 0
    THEN [a EXCEPT !.index =
                     <<WordPtrShiftLeft(a.index[1], a.element_size_log2,
                                        folded)>>,
                   !.element_size_log2 = 0]
    ELSE a

OffsetInIndex_KeepsOffset(a, folded) ==
  IF a.offset # 0
    THEN [a EXCEPT !.index = <<WordPtrAdd(a.index[1], a.offset, folded)>>]
    ELSE a

OffsetInIndex(a, folded) ==
  IF a.offset # 0
    THEN [a EXCEPT !.index = <<WordPtrAdd(a.index[1], a.offset, folded)>>,
                   !.offset = 0]
    ELSE a

SimplifyLoadStore(a, folded, overflowed) ==
  IF ~lowering_enabled_
    THEN a
    ELSE LET untagged == UntaggedBase(ShiftedIndex(a, folded), overflowed)
         IN IF NeedsIndexOnly(untagged)
              THEN OffsetInIndex(ScaledIndex(OffsetAsIndex(untagged), folded),
                                 folded)
              ELSE untagged

(***************************************************************************)
(* The operations the reducer can be handed.                               *)
(***************************************************************************)
Int32Offsets ==
  {kMinInt, kMinInt + 1, kMinInt + 2, -1, 0, 1, 8, kMaxInt}

MaxElementSizeLog2 == 4

Bases ==
  {[rep |-> "Tagged", value |-> <<4097, 0, 0, 0>>],
   [rep |-> "Tagged", value |-> <<Limb - 1, Limb - 1, Limb - 1, Limb - 1>>]}

Indices ==
  {<<>>, <<IntPtrConstant(0)>>, <<IntPtrConstant(5)>>,
   <<[constant |-> FALSE, value |-> WordFromInt32(0)]>>,
   <<[constant |-> FALSE, value |-> WordFromInt32(7)]>>,
   <<[constant |-> FALSE, value |-> <<3, 0, 0, 2 ^ 13>>]>>}

LoadStoreKinds == [tagged_base : BOOLEAN, is_atomic : BOOLEAN]

AtomicWord32PairKinds == {"kLoad", "kStore", "kAdd"}

\* No operation is being reduced (the reducer is not part of the run of the
\* analysis).
ReducerIdle ==
  /\ configuration = TaggedBaseConfiguration
  /\ lowering_enabled_ = FALSE
  /\ reducer_pc = "idle"
  /\ base = [rep |-> "Tagged", value |-> WordFromInt32(0)]
  /\ index = <<>>
  /\ kind = [tagged_base |-> FALSE, is_atomic |-> FALSE]
  /\ offset = 0
  /\ element_size_log2 = 0

vars == <<graph, stack_, visited_, curr_, pc, block, current_block_, opPos,
          active, types_table_, merge_values_, block_to_snapshot_,
          block_is_unreachable_, input_type_map_,
          is_first_loop_header_evaluation_, snapshot, needs_revisit,
          configuration, lowering_enabled_, reducer_pc, base, index, kind,
          offset, element_size_log2>>

OpIds == 0 .. (Len(graph.ops) - 1)

BlockIds == 0 .. (Len(graph.blocks) - 1)

Get(i) == graph.ops[i + 1]

BlockAt(b) == graph.blocks[b + 1]

LastOperation(b) == Get(BlockAt(b).ops[Len(BlockAt(b).ops)])

LastPredecessor(b) == BlockAt(b).preds[Len(BlockAt(b).preds)]

IsLoop(b) == BlockAt(b).kind = "loop"

IsBranchTarget(b) == BlockAt(b).kind = "branch_target"

Reverse(s) == [i \in 1 .. Len(s) |-> s[Len(s) + 1 - i]]

\* Block::PredecessorsIterable: from the last predecessor to the first.
PredecessorsIterable(b) == Reverse(BlockAt(b).preds)

EmptySnapshot == [k \in OpIds |-> Unknown]

(***************************************************************************)
(* Alias resolver and the narrowing primitives.  The transfer functions    *)
(* work on a record st = [tbl, unr, itm]: the active snapshot, the set of  *)
(* blocks flagged unreachable and the input-type map.                      *)
(***************************************************************************)
\* ResolveAliases walking one pass-through operation only.
ResolveAliases_OneStep(object) ==
  IF Get(object).opcode \in {"WasmTypeCast", "AssertNotNull",
                             "WasmTypeAnnotation"}
  THEN Get(object).in[1]
  ELSE object

RECURSIVE ResolveAliases(_)
ResolveAliases(object) ==
  LET op == Get(object) IN
  IF op.opcode \in {"WasmTypeCast", "AssertNotNull", "WasmTypeAnnotation"}
  THEN ResolveAliases(op.in[1])
  ELSE object

IsReachable(b) == b \notin block_is_unreachable_

GetResolvedType(tbl, object) == tbl[ResolveAliases(object)]

\* RefineTypeKnowledge storing the new type without intersecting it with the
\* previous one.
RefinedType_Overwrite(previous_value, new_type) == new_type

\* The type RefineTypeKnowledge stores for a value of type previous_value.
RefinedType(previous_value, new_type) ==
  IF previous_value = Unknown THEN new_type
  ELSE Intersection(previous_value, new_type)

\* RefineTypeKnowledge flagging the block only when the stored type is
\* bottom, not for the other uninhabited types.
RefineTypeKnowledge_BottomOnly(st, object, new_type) ==
  LET obj == ResolveAliases(object)
      previous_value == st.tbl[obj]
      intersection_type == RefinedType(previous_value, new_type)
  IN [st EXCEPT
        !.unr = IF is_bottom(intersection_type)
                THEN @ \cup {current_block_} ELSE @,
        !.tbl = [@ EXCEPT ![obj] = intersection_type]]

\* RefineTypeKnowledge: the new st; the returned type is PreviousValue.
RefineTypeKnowledge(st, object, new_type) ==
  LET obj == ResolveAliases(object)
      previous_value == st.tbl[obj]
      intersection_type == RefinedType(previous_value, new_type)
  IN [st EXCEPT
        !.unr = IF is_uninhabited(intersection_type)
                THEN @ \cup {current_block_} ELSE @,
        !.tbl = [@ EXCEPT ![obj] = intersection_type]]

PreviousValue(st, object) == st.tbl[ResolveAliases(object)]

\* RefineTypeKnowledgeNotNull without the flagging of the block (lines
\* 414-416).
RefineTypeKnowledgeNotNull_NoFlag(st, object) ==
  [st EXCEPT !.tbl = [@ EXCEPT ![ResolveAliases(object)] =
                        AsNonNull(st.tbl[ResolveAliases(object)])]]

\* RefineTypeKnowledgeNotNull: the new st; the returned type is PreviousValue.
RefineTypeKnowledgeNotNull(st, object) ==
  LET obj == ResolveAliases(object)
      previous_value == st.tbl[obj]
  IN [st EXCEPT
        !.unr = IF is_uninhabited(previous_value)
                THEN @ \cup {current_block_} ELSE @,
        !.tbl = [@ EXCEPT ![obj] = AsNonNull(previous_value)]]

SetInputType(st, idx, t) == [st EXCEPT !.itm = [@ EXCEPT ![idx] = <<t>>]]

(***************************************************************************)
(* Transfer functions, one per operation kind; idx is graph_.Index(op).    *)
(***************************************************************************)
\* ProcessTypeCast recording the cast's target type as the input type.
ProcessTypeCast_RecordsTarget(st, idx) ==
  SetInputType(RefineTypeKnowledge(st, Get(idx).in[1], Get(idx).ty),
               idx, Get(idx).ty)

ProcessTypeCast(st, idx) ==
  LET type_cast == Get(idx)
      known_input_type == PreviousValue(st, type_cast.in[1])
  IN SetInputType(RefineTypeKnowledge(st, type_cast.in[1], type_cast.ty),
                  idx, known_input_type)

\* ProcessTypeCheck narrowing the object to the checked type, as a cast
\* does.
ProcessTypeCheck_Narrows(st, idx) ==
  SetInputType(RefineTypeKnowledge(st, Get(idx).in[1], Get(idx).ty),
               idx, GetResolvedType(st.tbl, Get(idx).in[1]))

ProcessTypeCheck(st, idx) ==
  SetInputType(st, idx, GetResolvedType(st.tbl, Get(idx).in[1]))

ProcessAssertNotNull(st, idx) ==
  LET assert_not_null == Get(idx)
      new_type == AsNonNull(assert_not_null.ty)
      known_input_type == PreviousValue(st, assert_not_null.in[1])
  IN SetInputType(RefineTypeKnowledge(st, assert_not_null.in[1], new_type),
                  idx, known_input_type)

ProcessIsNull(st, idx) ==
  SetInputType(st, idx, GetResolvedType(st.tbl, Get(idx).in[1]))

ProcessParameter(st, idx) ==
  IF Get(idx).pidx # kWasmInstanceParameterIndex
  THEN RefineTypeKnowledge(st, idx, Get(idx).ty)
  ELSE st

\* ProcessStructGet recording the object's type after the implicit null
\* check instead of the type before it.
ProcessStructGet_RecordsAfter(st, idx) ==
  LET struct_get == Get(idx)
      st0 == RefineTypeKnowledgeNotNull(st, struct_get.in[1])
      st1 == SetInputType(st0, idx, PreviousValue(st0, struct_get.in[1]))
  IN RefineTypeKnowledge(st1, idx, struct_get.ty)

ProcessStructGet(st, idx) ==
  LET struct_get == Get(idx)
      type == PreviousValue(st, struct_get.in[1])
      st1 == SetInputType(RefineTypeKnowledgeNotNull(st, struct_get.in[1]),
                          idx, type)
  IN RefineTypeKnowledge(st1, idx, struct_get.ty)

ProcessStructSet(st, idx) ==
  LET type == PreviousValue(st, Get(idx).in[1])
  IN SetInputType(RefineTypeKnowledgeNotNull(st, Get(idx).in[1]), idx, type)

ProcessArrayLength(st, idx) ==
  LET type == PreviousValue(st, Get(idx).in[1])
  IN SetInputType(RefineTypeKnowledgeNotNull(st, Get(idx).in[1]), idx, type)

ProcessGlobalGet(st, idx) == RefineTypeKnowledge(st, idx, Get(idx).ty)

ProcessRefFunc(st, idx) == RefineTypeKnowledge(st, idx, Ref(Get(idx).ty[1]))

ProcessAllocateArray(st, idx) ==
  RefineTypeKnowledge(st, idx, Ref(Get(idx).ty[1]))

ProcessAllocateStruct(st, idx) ==
  RefineTypeKnowledge(st, idx, Ref(Get(idx).ty[1]))

ProcessTypeAnnotation(st, idx) ==
  RefineTypeKnowledge(st, Get(idx).in[1], Get(idx).ty)

ProcessNull(st, idx) ==
  RefineTypeKnowledge(st, idx, ToNullSentinel(Get(idx).ty))

\* SnapshotTable::GetPredecessorValue: the value of key in the
\* predecessor_index-th predecessor of the active merge (the current value
\* when the active snapshot is no merge).
GetPredecessorValue(tbl, key, predecessor_index) ==
  IF merge_values_ = <<>> THEN tbl[key]
  ELSE merge_values_[predecessor_index + 1][key]

\* The loop of ProcessPhi skipping the inputs whose type is unknown as it
\* skips those whose type is bottom.
RECURSIVE PhiUnion_SkipsUnknown(_, _, _)
PhiUnion_SkipsUnknown(inputs, i, union_type) ==
  IF i >= Len(inputs) THEN <<union_type>>
  ELSE LET input_type == inputs[i + 1]
       IN IF input_type \in {Unknown, kWasmBottom}
          THEN PhiUnion_SkipsUnknown(inputs, i + 1, union_type)
          ELSE IF union_type = kWasmBottom
          THEN PhiUnion_SkipsUnknown(inputs, i + 1, input_type)
          ELSE PhiUnion_SkipsUnknown(inputs, i + 1, Union(union_type, input_type))

\* The loop of ProcessPhi over the input types inputs[i + 1 ..], inputs being
\* the types GetPredecessorValue gives for the phi's inputs: the union type,
\* or <<>> when an input is unknown (the function returns without refining).
RECURSIVE PhiUnion(_, _, _)
PhiUnion(inputs, i, union_type) ==
  IF i >= Len(inputs) THEN <<union_type>>
  ELSE LET input_type == inputs[i + 1]
       IN IF input_type = Unknown THEN <<>>
          ELSE IF input_type = kWasmBottom
          THEN PhiUnion(inputs, i + 1, union_type)
          ELSE IF union_type = kWasmBottom
          THEN PhiUnion(inputs, i + 1, input_type)
          ELSE PhiUnion(inputs, i + 1, Union(union_type, input_type))

\* The type ProcessPhi hands to RefineTypeKnowledge outside the optimistic
\* evaluation, from the input types: <<>> or <<union_type>>.
PhiUnionType(inputs) ==
  IF inputs[1] = Unknown THEN <<>> ELSE PhiUnion(inputs, 1, inputs[1])

\* The types of the inputs of phi in their predecessors.
PhiInputTypes(tbl, phi) ==
  [i \in 1 .. Len(phi.in) |->
     GetPredecessorValue(tbl, ResolveAliases(phi.in[i]), i - 1)]

PhiType(tbl, phi) == PhiUnionType(PhiInputTypes(tbl, phi))

\* ProcessPhi using only the forward edge in every evaluation of the phi.
ProcessPhi_ForwardOnly(st, idx) ==
  RefineTypeKnowledge(st, idx, GetResolvedType(st.tbl, Get(idx).in[1]))

ProcessPhi(st, idx) ==
  LET phi == Get(idx) IN
  IF is_first_loop_header_evaluation_
  THEN RefineTypeKnowledge(st, idx, GetResolvedType(st.tbl, phi.in[1]))
  ELSE LET u == PhiType(st.tbl, phi)
       IN IF u = <<>> THEN st ELSE RefineTypeKnowledge(st, idx, u[1])

\* ProcessOperations' switch.
ProcessOperation(st, idx) ==
  LET opcode == Get(idx).opcode IN
  CASE opcode = "WasmTypeCast" -> ProcessTypeCast(st, idx)
    [] opcode = "WasmTypeCheck" -> ProcessTypeCheck(st, idx)
    [] opcode = "AssertNotNull" -> ProcessAssertNotNull(st, idx)
    [] opcode = "Null" -> ProcessNull(st, idx)
    [] opcode = "IsNull" -> ProcessIsNull(st, idx)
    [] opcode = "Parameter" -> ProcessParameter(st, idx)
    [] opcode = "StructGet" -> ProcessStructGet(st, idx)
    [] opcode = "StructSet" -> ProcessStructSet(st, idx)
    [] opcode = "ArrayLength" -> ProcessArrayLength(st, idx)
    [] opcode = "GlobalGet" -> ProcessGlobalGet(st, idx)
    [] opcode = "WasmRefFunc" -> ProcessRefFunc(st, idx)
    [] opcode = "WasmAllocateArray" -> ProcessAllocateArray(st, idx)
    [] opcode = "WasmAllocateStruct" -> ProcessAllocateStruct(st, idx)
    [] opcode = "Phi" -> ProcessPhi(st, idx)
    [] opcode = "WasmTypeAnnotation" -> ProcessTypeAnnotation(st, idx)
    [] OTHER -> st

\* ProcessBranchOnTarget refining the null-taken target to the null type
\* without the test for a non-nullable object.
ProcessBranchOnTarget_NoNullableTest(st, branch, target) ==
  LET condition == Get(branch.in[1])
      if_true == branch.dst[1]
  IN CASE condition.opcode = "WasmTypeCheck" ->
            IF if_true = target
            THEN RefineTypeKnowledge(st, condition.in[1], condition.ty)
            ELSE IF IsSubtypeOf(GetResolvedType(st.tbl, condition.in[1]),
                                condition.ty)
            THEN [st EXCEPT !.unr = @ \cup {target}]
            ELSE st
       [] condition.opcode = "IsNull" ->
            IF if_true = target
            THEN RefineTypeKnowledge(st, condition.in[1],
                                     ToNullSentinel(condition.ty))
            ELSE RefineTypeKnowledge(st, condition.in[1],
                                     AsNonNull(condition.ty))
       [] OTHER -> st

\* ProcessBranchOnTarget that never flags the false target of a type check.
ProcessBranchOnTarget_NoFalseTarget(st, branch, target) ==
  LET condition == Get(branch.in[1])
      if_true == branch.dst[1]
  IN CASE condition.opcode = "WasmTypeCheck" ->
            IF if_true = target
            THEN RefineTypeKnowledge(st, condition.in[1], condition.ty)
            ELSE st
       [] condition.opcode = "IsNull" ->
            IF if_true = target
            THEN IF is_non_nullable(GetResolvedType(st.tbl, condition.in[1]))
                 THEN [st EXCEPT !.unr = @ \cup {target}]
                 ELSE RefineTypeKnowledge(st, condition.in[1],
                                          ToNullSentinel(condition.ty))
            ELSE RefineTypeKnowledge(st, condition.in[1],
                                     AsNonNull(condition.ty))
       [] OTHER -> st

\* ProcessBranchOnTarget(branch, target): the new st.
ProcessBranchOnTarget(st, branch, target) ==
  LET condition == Get(branch.in[1])
      if_true == branch.dst[1]
  IN CASE condition.opcode = "WasmTypeCheck" ->
            IF if_true = target
            THEN RefineTypeKnowledge(st, condition.in[1], condition.ty)
            ELSE IF IsSubtypeOf(GetResolvedType(st.tbl, condition.in[1]),
                                condition.ty)
            THEN [st EXCEPT !.unr = @ \cup {target}]
            ELSE st
       [] condition.opcode = "IsNull" ->
            IF if_true = target
            THEN IF is_non_nullable(GetResolvedType(st.tbl, condition.in[1]))
                 THEN [st EXCEPT !.unr = @ \cup {target}]
                 ELSE RefineTypeKnowledge(st, condition.in[1],
                                          ToNullSentinel(condition.ty))
            ELSE RefineTypeKnowledge(st, condition.in[1],
                                     AsNonNull(condition.ty))
       [] OTHER -> st

(***************************************************************************)
(* Snapshot merging (CreateMergeSnapshot).                                 *)
(***************************************************************************)
\* The first loop of the merge function without the test of reachable[i].
FirstContributor_AnyPredecessor(predecessors, reachable) ==
  LET S == {i \in 1 .. Len(reachable) : predecessors[i] # kWasmBottom}
  IN IF S = {} THEN 0 ELSE CHOOSE i \in S : \A j \in S : i <= j

\* The first loop of the merge function: the position (1-based) of the
\* first reachable predecessor whose type is not bottom, 0 if there is none.
FirstContributor(predecessors, reachable) ==
  LET S == {i \in 1 .. Len(reachable) :
              reachable[i] /\ predecessors[i] # kWasmBottom}
  IN IF S = {} THEN 0 ELSE CHOOSE i \in S : \A j \in S : i <= j

\* The second loop of the merge function testing only the type of the
\* predecessor, not the result so far, for the unknown type.
RECURSIVE MergeRest_OneSided(_, _, _, _, _, _)
MergeRest_OneSided(predecessors, reachable, i, first, res, eq) ==
  IF i > Len(reachable) THEN [res |-> res, eq |-> eq]
  ELSE IF ~reachable[i]
  THEN MergeRest_OneSided(predecessors, reachable, i + 1, first, res, eq)
  ELSE IF predecessors[i] = kWasmBottom
  THEN MergeRest_OneSided(predecessors, reachable, i + 1, first, res, eq)
  ELSE LET type == predecessors[i]
       IN MergeRest_OneSided(predecessors, reachable, i + 1, first,
                             IF type = Unknown THEN Unknown
                             ELSE Union(res, type),
                             eq /\ (first = type))

\* The second loop of the merge function, from position i on.
RECURSIVE MergeRest(_, _, _, _, _, _)
MergeRest(predecessors, reachable, i, first, res, eq) ==
  IF i > Len(reachable) THEN [res |-> res, eq |-> eq]
  ELSE IF ~reachable[i]
  THEN MergeRest(predecessors, reachable, i + 1, first, res, eq)
  ELSE IF predecessors[i] = kWasmBottom
  THEN MergeRest(predecessors, reachable, i + 1, first, res, eq)
  ELSE LET type == predecessors[i]
       IN MergeRest(predecessors, reachable, i + 1, first,
                    IF res = Unknown \/ type = Unknown THEN Unknown
                    ELSE Union(res, type),
                    eq /\ (first = type))

\* The merge function of one key: the merged type res, and eq, what the key
\* leaves of types_are_equivalent.
MergeFun(predecessors, reachable) ==
  LET f == FirstContributor(predecessors, reachable)
  IN IF f = 0
     THEN [res |-> kWasmBottom, eq |-> TRUE]
     ELSE MergeRest(predecessors, reachable, f + 1, predecessors[f],
                    predecessors[f], TRUE)

\* The values of key k in a vector of snapshots.
ValuesOf(snapshots, k) == [i \in 1 .. Len(snapshots) |-> snapshots[i][k]]

\* SnapshotTable::StartNewSnapshot(predecessors, merge_fun): the content of
\* the new snapshot.
MergedTable(snapshots, reachable) ==
  [k \in OpIds |-> MergeFun(ValuesOf(snapshots, k), reachable).res]

\* CreateMergeSnapshot returning types_are_equivalent without the negation.
MergeDiffers_NotNegated(snapshots, reachable) ==
  \A k \in OpIds : MergeFun(ValuesOf(snapshots, k), reachable).eq

\* CreateMergeSnapshot(predecessors, reachable): its return value.
MergeDiffers(snapshots, reachable) ==
  \E k \in OpIds : ~MergeFun(ValuesOf(snapshots, k), reachable).eq

\* CreateMergeSnapshot(block): the snapshots and the reachability of the
\* predecessors, restored to the original predecessor order.
PredecessorSnapshots(b) ==
  Reverse([i \in 1 .. Len(PredecessorsIterable(b)) |->
             block_to_snapshot_[PredecessorsIterable(b)[i]][1]])

PredecessorReachable(unr, b) ==
  Reverse([i \in 1 .. Len(PredecessorsIterable(b)) |->
             PredecessorsIterable(b)[i] \notin unr])

(***************************************************************************)
(* AnalyzerIterator: a stack of <<block, generation>> items over the       *)
(* dominator tree.                                                         *)
(***************************************************************************)
kNotVisitedGeneration == 0

kGenerationForFirstVisit == 1

IsOutdated(vis, item) == vis[item.block] >= item.generation

RECURSIVE PopOutdated(_, _)
PopOutdated(stk, vis) ==
  IF stk # <<>> /\ IsOutdated(vis, stk[Len(stk)])
  THEN PopOutdated(SubSeq(stk, 1, Len(stk) - 1), vis)
  ELSE stk

GetLoopHeader(b) == BlockAt(b).header

\* The items Next pushes for the children of item it: first the children
\* outside of the loop of it, then those inside.
ChildItems(it) ==
  LET curr_header == IF IsLoop(it.block) THEN it.block
                     ELSE GetLoopHeader(it.block)
      ch == BlockAt(it.block).children
      item(c) == [block |-> c, generation |-> it.generation]
  IN [i \in 1 .. Len(SelectSeq(ch, LAMBDA c : GetLoopHeader(c) # curr_header))
        |-> item(SelectSeq(ch, LAMBDA c : GetLoopHeader(c) # curr_header)[i])]
     \o
     [i \in 1 .. Len(SelectSeq(ch, LAMBDA c : GetLoopHeader(c) = curr_header))
        |-> item(SelectSeq(ch, LAMBDA c : GetLoopHeader(c) = curr_header)[i])]

\* MarkLoopForRevisitSkipHeader: the items pushed for the children of header.
RevisitItems(header) ==
  [i \in 1 .. Len(BlockAt(header).children) |->
     [block |-> BlockAt(header).children[i],
      generation |-> curr_.generation + 1]]

(***************************************************************************)
(* The driver.  pc is the position of Run: "iter" (the loop test of line   *)
(* 15), "start"/"branch"/"ops" (ProcessBlock of the iterated block),       *)
(* "hstart"/"hbranch"/"hops" (ProcessBlock of the loop header, line 30),   *)
(* "cmp" (line 36), "discard" (line 39), "done", and "undefined" after     *)
(* value() of a snapshot that does not exist.                              *)
(***************************************************************************)
Init ==
  /\ graph \in Graphs
  /\ stack_ = <<[block |-> 0, generation |-> kGenerationForFirstVisit]>>
  /\ visited_ = [b \in BlockIds |-> kNotVisitedGeneration]
  /\ curr_ = [block |-> NoBlock, generation |-> kNotVisitedGeneration]
  /\ pc = "iter"
  /\ block = NoBlock
  /\ current_block_ = NoBlock
  /\ opPos = 0
  /\ active = FALSE
  /\ types_table_ = EmptySnapshot
  /\ merge_values_ = <<>>
  /\ block_to_snapshot_ = [b \in BlockIds |-> <<>>]
  /\ block_is_unreachable_ = {}
  /\ input_type_map_ = [i \in OpIds |-> <<>>]
  /\ is_first_loop_header_evaluation_ = FALSE
  /\ snapshot = <<>>
  /\ needs_revisit = FALSE
  /\ ReducerIdle

\* The transfer-function state of the current state.
State ==
  [tbl |-> types_table_, unr |-> block_is_unreachable_,
   itm |-> input_type_map_]

\* The loop header Run re-derives after `block` (line 27).
LoopHeaderOf(b) == LastOperation(b).dst[1]

\* The block ProcessBlock was called for.
Processed == IF pc \in {"hstart", "hbranch", "hops"} THEN LoopHeaderOf(block)
             ELSE block

\* AnalyzerIterator::Next and the call of ProcessBlock (lines 15-17).
IteratorNext ==
  /\ pc = "iter"
  /\ stack_ # <<>>
  /\ \E it \in {stack_[Len(stack_)]} :
        /\ curr_' = it
        /\ visited_' = [visited_ EXCEPT ![it.block] = it.generation]
        /\ stack_' = PopOutdated(
                        SubSeq(stack_, 1, Len(stack_) - 1) \o ChildItems(it),
                        [visited_ EXCEPT ![it.block] = it.generation])
        /\ block' = it.block
  /\ pc' = "start"
  /\ UNCHANGED reducer_vars
  /\ UNCHANGED <<graph, current_block_, opPos, active, types_table_,
                 merge_values_, block_to_snapshot_, block_is_unreachable_,
                 input_type_map_, is_first_loop_header_evaluation_, snapshot,
                 needs_revisit>>

\* Run returns: the iterator has no next block.
Finish ==
  /\ pc = "iter"
  /\ stack_ = <<>>
  /\ pc' = "done"
  /\ UNCHANGED reducer_vars
  /\ UNCHANGED <<graph, stack_, visited_, curr_, block, current_block_, opPos,
                 active, types_table_, merge_values_, block_to_snapshot_,
                 block_is_unreachable_, input_type_map_,
                 is_first_loop_header_evaluation_, snapshot, needs_revisit>>

\* The recorded snapshots StartNewSnapshotFor(b) takes the value() of.
SnapshotsNeeded(b) ==
  IF BlockAt(b).preds = <<>> THEN {}
  ELSE IF IsLoop(b)
  THEN (IF block_to_snapshot_[LastPredecessor(b)] # <<>>
        THEN {BlockAt(b).preds[i] : i \in 1 .. Len(BlockAt(b).preds)}
        ELSE {BlockAt(b).preds[Len(BlockAt(b).preds) - 1]})
  ELSE IF IsBranchTarget(b) THEN {LastPredecessor(b)}
  ELSE {BlockAt(b).preds[i] : i \in 1 .. Len(BlockAt(b).preds)}

\* Whether StartNewSnapshotFor(b) calls ProcessBranchOnTarget.
HasBranch(b) ==
  /\ BlockAt(b).preds # <<>>
  /\ ~IsLoop(b)
  /\ IsBranchTarget(b)
  /\ LastOperation(BlockAt(b).preds[1]).opcode = "Branch"

\* StartNewSnapshotFor without the reset of the optimistic flag at its
\* start (line 66).
SeededSnapshot_KeepsFlag(b, unr) ==
  IF BlockAt(b).preds = <<>>
  THEN [tbl |-> EmptySnapshot, mv |-> <<>>,
        first |-> is_first_loop_header_evaluation_]
  ELSE IF IsLoop(b) /\ block_to_snapshot_[LastPredecessor(b)] = <<>>
  THEN [tbl |-> block_to_snapshot_[BlockAt(b).preds[Len(BlockAt(b).preds) - 1]][1],
        mv |-> <<>>, first |-> TRUE]
  ELSE IF ~IsLoop(b) /\ IsBranchTarget(b)
  THEN [tbl |-> block_to_snapshot_[LastPredecessor(b)][1],
        mv |-> <<>>, first |-> is_first_loop_header_evaluation_]
  ELSE [tbl |-> MergedTable(PredecessorSnapshots(b),
                            PredecessorReachable(unr, b)),
        mv |-> PredecessorSnapshots(b),
        first |-> is_first_loop_header_evaluation_]

\* The snapshot StartNewSnapshotFor(b) starts, before the branch refinement:
\* its content tbl, the predecessor values mv of a merge, and the flag first.
SeededSnapshot(b, unr) ==
  IF BlockAt(b).preds = <<>>
  THEN [tbl |-> EmptySnapshot, mv |-> <<>>, first |-> FALSE]
  ELSE IF IsLoop(b) /\ block_to_snapshot_[LastPredecessor(b)] = <<>>
  THEN [tbl |-> block_to_snapshot_[BlockAt(b).preds[Len(BlockAt(b).preds) - 1]][1],
        mv |-> <<>>, first |-> TRUE]
  ELSE IF ~IsLoop(b) /\ IsBranchTarget(b)
  THEN [tbl |-> block_to_snapshot_[LastPredecessor(b)][1],
        mv |-> <<>>, first |-> FALSE]
  ELSE [tbl |-> MergedTable(PredecessorSnapshots(b),
                            PredecessorReachable(unr, b)),
        mv |-> PredecessorSnapshots(b), first |-> FALSE]

\* ProcessBlock up to the snapshot seeding of StartNewSnapshotFor
\* (lines 58-60, 65-100 and 106-109).
StartNewSnapshotFor ==
  /\ pc \in {"start", "hstart"}
  /\ LET b == Processed
         unr == block_is_unreachable_ \ {b}
     IN /\ current_block_' = b
        /\ block_is_unreachable_' = unr
        /\ IF \E p \in SnapshotsNeeded(b) : block_to_snapshot_[p] = <<>>
           THEN /\ pc' = "undefined"
                /\ UNCHANGED <<active, types_table_, merge_values_,
                               is_first_loop_header_evaluation_, opPos>>
           ELSE \E seed \in {SeededSnapshot(b, unr)} :
                /\ active' = TRUE
                /\ types_table_' = seed.tbl
                /\ merge_values_' = seed.mv
                /\ is_first_loop_header_evaluation_' = seed.first
                /\ opPos' = 1
                /\ pc' = IF HasBranch(b)
                         THEN (IF pc = "start" THEN "branch" ELSE "hbranch")
                         ELSE (IF pc = "start" THEN "ops" ELSE "hops")
  /\ UNCHANGED reducer_vars
  /\ UNCHANGED <<graph, stack_, visited_, curr_, block, block_to_snapshot_,
                 input_type_map_, snapshot, needs_revisit>>

\* The call of ProcessBranchOnTarget in StartNewSnapshotFor (lines 101-105).
BranchOnTarget ==
  /\ pc \in {"branch", "hbranch"}
  /\ \E st \in {ProcessBranchOnTarget(
                   State, LastOperation(BlockAt(current_block_).preds[1]),
                   current_block_)} :
        /\ types_table_' = st.tbl
        /\ block_is_unreachable_' = st.unr
        /\ input_type_map_' = st.itm
  /\ pc' = IF pc = "branch" THEN "ops" ELSE "hops"
  /\ UNCHANGED reducer_vars
  /\ UNCHANGED <<graph, stack_, visited_, curr_, block, current_block_, opPos,
                 active, merge_values_, block_to_snapshot_,
                 is_first_loop_header_evaluation_, snapshot, needs_revisit>>

\* One iteration of the loop of ProcessOperations.
ProcessOperations ==
  /\ pc \in {"ops", "hops"}
  /\ opPos <= Len(BlockAt(current_block_).ops)
  /\ \E st \in {ProcessOperation(State, BlockAt(current_block_).ops[opPos])} :
        /\ types_table_' = st.tbl
        /\ block_is_unreachable_' = st.unr
        /\ input_type_map_' = st.itm
  /\ opPos' = opPos + 1
  /\ UNCHANGED reducer_vars
  /\ UNCHANGED <<graph, stack_, visited_, curr_, pc, block, current_block_,
                 active, merge_values_, block_to_snapshot_,
                 is_first_loop_header_evaluation_, snapshot, needs_revisit>>

\* Whether Run re-derives the loop header after block b, without the test
\* of the reachability of b (line 25).
ConsidersLoop_IgnoresReachability(b) ==
  /\ LastOperation(b).opcode = "Goto"
  /\ IsLoop(LoopHeaderOf(b))
  /\ LastPredecessor(LoopHeaderOf(b)) = b

\* Whether Run re-derives the loop header after block b (lines 24-26).
ConsidersLoop(b) ==
  /\ LastOperation(b).opcode = "Goto"
  /\ IsReachable(b)
  /\ IsLoop(LoopHeaderOf(b))
  /\ LastPredecessor(LoopHeaderOf(b)) = b

\* The end of ProcessBlock(block) and the Seal, without the recording of
\* the sealed snapshot (line 21).
SealBlock_NoRecord ==
  /\ pc = "ops"
  /\ opPos > Len(BlockAt(current_block_).ops)
  /\ current_block_' = NoBlock
  /\ active' = FALSE
  /\ merge_values_' = <<>>
  /\ pc' = IF ConsidersLoop(block) THEN "hstart" ELSE "iter"
  /\ UNCHANGED reducer_vars
  /\ UNCHANGED <<graph, stack_, visited_, curr_, block, opPos, types_table_,
                 block_is_unreachable_, input_type_map_, block_to_snapshot_,
                 is_first_loop_header_evaluation_, snapshot, needs_revisit>>

\* The end of ProcessBlock(block), Seal and the recording of the snapshot
\* (lines 62, 20-26).
SealBlock ==
  /\ pc = "ops"
  /\ opPos > Len(BlockAt(current_block_).ops)
  /\ current_block_' = NoBlock
  /\ active' = FALSE
  /\ merge_values_' = <<>>
  /\ block_to_snapshot_' = [block_to_snapshot_ EXCEPT ![block] = <<types_table_>>]
  /\ pc' = IF ConsidersLoop(block) THEN "hstart" ELSE "iter"
  /\ UNCHANGED reducer_vars
  /\ UNCHANGED <<graph, stack_, visited_, curr_, block, opPos, types_table_,
                 block_is_unreachable_, input_type_map_,
                 is_first_loop_header_evaluation_, snapshot, needs_revisit>>

\* The end of ProcessBlock(loop_header) recording the re-derived snapshot as
\* the header's snapshot before the comparison.
SealHeader_Records ==
  /\ pc = "hops"
  /\ opPos > Len(BlockAt(current_block_).ops)
  /\ block_to_snapshot_' =
       [block_to_snapshot_ EXCEPT ![current_block_] = <<types_table_>>]
  /\ current_block_' = NoBlock
  /\ active' = FALSE
  /\ merge_values_' = <<>>
  /\ snapshot' = <<types_table_>>
  /\ pc' = "cmp"
  /\ UNCHANGED reducer_vars
  /\ UNCHANGED <<graph, stack_, visited_, curr_, block, opPos, types_table_,
                 block_is_unreachable_, input_type_map_,
                 is_first_loop_header_evaluation_, needs_revisit>>

\* The end of ProcessBlock(loop_header) without the Seal of the re-derived
\* snapshot (line 32).
SealHeader_NoSeal ==
  /\ pc = "hops"
  /\ opPos > Len(BlockAt(current_block_).ops)
  /\ current_block_' = NoBlock
  /\ merge_values_' = <<>>
  /\ snapshot' = <<types_table_>>
  /\ pc' = "cmp"
  /\ UNCHANGED reducer_vars
  /\ UNCHANGED <<graph, stack_, visited_, curr_, block, opPos, types_table_,
                 block_to_snapshot_, block_is_unreachable_, input_type_map_,
                 is_first_loop_header_evaluation_, needs_revisit, active>>

\* The end of ProcessBlock(loop_header) and the Seal of line 32.
SealHeader ==
  /\ pc = "hops"
  /\ opPos > Len(BlockAt(current_block_).ops)
  /\ current_block_' = NoBlock
  /\ active' = FALSE
  /\ merge_values_' = <<>>
  /\ snapshot' = <<types_table_>>
  /\ pc' = "cmp"
  /\ UNCHANGED reducer_vars
  /\ UNCHANGED <<graph, stack_, visited_, curr_, block, opPos, types_table_,
                 block_to_snapshot_, block_is_unreachable_, input_type_map_,
                 is_first_loop_header_evaluation_, needs_revisit>>

\* The comparison of the old and the new header snapshot (lines 31, 36-38).
CompareSnapshots ==
  /\ pc = "cmp"
  /\ \E old_snapshot \in {block_to_snapshot_[LoopHeaderOf(block)][1]} :
        /\ types_table_' = MergedTable(<<old_snapshot, snapshot[1]>>,
                                       <<TRUE, TRUE>>)
        /\ merge_values_' = <<old_snapshot, snapshot[1]>>
        /\ needs_revisit' = MergeDiffers(<<old_snapshot, snapshot[1]>>,
                                         <<TRUE, TRUE>>)
  /\ active' = TRUE
  /\ pc' = "discard"
  /\ UNCHANGED reducer_vars
  /\ UNCHANGED <<graph, stack_, visited_, curr_, block, current_block_, opPos,
                 block_to_snapshot_, block_is_unreachable_, input_type_map_,
                 is_first_loop_header_evaluation_, snapshot>>

\* Seal of line 39 and the revisit decision (lines 46-51).
DiscardAndRevisit ==
  /\ pc = "discard"
  /\ needs_revisit => curr_.generation + 1 <= MaxGeneration
  /\ active' = FALSE
  /\ merge_values_' = <<>>
  /\ IF needs_revisit
     THEN /\ block_to_snapshot_' =
               [block_to_snapshot_ EXCEPT ![LoopHeaderOf(block)] = snapshot]
          /\ stack_' = stack_ \o RevisitItems(LoopHeaderOf(block))
     ELSE UNCHANGED <<block_to_snapshot_, stack_>>
  /\ snapshot' = <<>>
  /\ needs_revisit' = FALSE
  /\ pc' = "iter"
  /\ UNCHANGED reducer_vars
  /\ UNCHANGED <<graph, visited_, curr_, block, current_block_, opPos,
                 types_table_, block_is_unreachable_, input_type_map_,
                 is_first_loop_header_evaluation_>>

Next ==
  \/ IteratorNext
  \/ Finish
  \/ StartNewSnapshotFor
  \/ BranchOnTarget
  \/ ProcessOperations
  \/ SealBlock
  \/ SealHeader
  \/ CompareSnapshots
  \/ DiscardAndRevisit

Spec == Init /\ [][Next]_vars

(***************************************************************************)
(* Run under a fair scheduler, on the loops whose branch condition has no  *)
(* transfer rule and on the loops behind a null check.                     *)
(***************************************************************************)
TermGraphs ==
  {g \in LoopGraphs : g.ops[7].opcode = "Other" /\ g.ops[8].dst[1] = 2}
    \cup DeadLoopGraphs

InitTerm == Init /\ graph \in TermGraphs

SpecTerm == InitTerm /\ [][Next]_vars /\ WF_vars(Next)

(***************************************************************************)
(* C1.  Run terminates: every run reaches the return of Run.  A revisit of *)
(* the loop body is requested (items are pushed on the iterator's stack    *)
(* after the comparison) only when the re-derived header snapshot differs  *)
(* from the recorded one, and a re-derivation that reproduces the recorded *)
(* snapshot requests none.                                                 *)
(***************************************************************************)
C1_RevisitOnlyOnDifference ==
  (pc = "discard" /\ stack_' # stack_)
    => snapshot[1] # block_to_snapshot_[LoopHeaderOf(block)][1]

C1_RunTerminates ==
  /\ <>(pc = "done")
  /\ [][C1_RevisitOnlyOnDifference]_vars

\* Run has returned after two revisits of a loop body.
C1_Witness == pc = "done" /\ \E b \in BlockIds : visited_[b] = 3

(***************************************************************************)
(* Scenario D: a loop whose header holds one phi p = Phi(a, b), a defined  *)
(* before the loop with type A, b defined in the backedge block by an      *)
(* operation that gives it the same type B in every iteration, A and B     *)
(* neither unknown nor bottom, and C = Union(A, B) different from A.       *)
(***************************************************************************)
\* The operations of block b that are phis.
PhisOf(b) ==
  {BlockAt(b).ops[i] : i \in {j \in 1 .. Len(BlockAt(b).ops) :
                                 Get(BlockAt(b).ops[j]).opcode = "Phi"}}

\* The blocks that are loop headers with exactly one phi.
OnePhiLoops == {b \in BlockIds : IsLoop(b) /\ Cardinality(PhisOf(b)) = 1}

D_Header == CHOOSE h \in OnePhiLoops : TRUE

D_Phi == CHOOSE p \in PhisOf(D_Header) : TRUE

D_Forward == BlockAt(D_Header).preds[1]

D_Backedge == LastPredecessor(D_Header)

\* The type an operation gives its own value whatever is known before it.
HasConstantType(op) ==
  op.opcode \in {"GlobalGet", "StructGet", "WasmRefFunc", "WasmAllocateStruct",
                 "WasmAllocateArray", "Null"}

ConstantTypeOf(op) ==
  IF op.opcode \in {"GlobalGet", "StructGet"} THEN op.ty
  ELSE IF op.opcode = "Null" THEN ToNullSentinel(op.ty)
  ELSE Ref(op.ty[1])

D_A == block_to_snapshot_[D_Forward][1][ResolveAliases(Get(D_Phi).in[1])]

D_B == ConstantTypeOf(Get(Get(D_Phi).in[2]))

D_C == Union(D_A, D_B)

\* The scenario's graph and types, once the forward-edge predecessor has
\* been processed.
D_Scenario ==
  /\ OnePhiLoops # {}
  /\ Get(D_Phi).in[2] \in
       {BlockAt(D_Backedge).ops[i] : i \in 1 .. Len(BlockAt(D_Backedge).ops)}
  /\ HasConstantType(Get(Get(D_Phi).in[2]))
  /\ block_to_snapshot_[D_Forward] # <<>>
  /\ D_A \in RefTypes
  /\ D_B \in RefTypes
  /\ D_C # D_A

\* What the scenario says of the analysis: the phi is A after the first
\* processing of the header and C after every re-derivation; the first
\* re-derivation, and none after it, requests a revisit.
D_Analysis ==
  /\ (block_to_snapshot_[D_Header] # <<>> /\ visited_[D_Backedge] = 0)
       => block_to_snapshot_[D_Header][1][D_Phi] = D_A
  /\ pc = "cmp" => snapshot[1][D_Phi] = D_C
  /\ pc = "discard" => (needs_revisit <=> curr_.generation = 1)
  /\ visited_[D_Backedge] <= 2
  /\ visited_[D_Backedge] = 2 => block_to_snapshot_[D_Header][1][D_Phi] = D_C

\* The run has ended after exactly one revisit, the header's snapshot
\* holding C for the phi.
D_OneRevisit ==
  /\ visited_[D_Backedge] = 2
  /\ block_to_snapshot_[D_Header][1][D_Phi] = D_C

MergeBlocks == {b \in BlockIds : Len(BlockAt(b).preds) > 1}

\* The type phi's i-th input has in the recorded snapshot of the i-th
\* predecessor of block b.
InputTypeFrom(b, phi, i) ==
  block_to_snapshot_[BlockAt(b).preds[i]][1][ResolveAliases(Get(phi).in[i])]

\* phi of block b covers its i-th input in b's recorded snapshot.
PhiCovers(b, phi, i) ==
  (/\ IsReachable(BlockAt(b).preds[i])
   /\ InputTypeFrom(b, phi, i) \in RefTypes)
    => \/ block_to_snapshot_[b][1][phi] = Unknown
       \/ IsSubtypeOf(InputTypeFrom(b, phi, i), block_to_snapshot_[b][1][phi])

\* An operation of block b after phi refines the type of phi (a cast, a null
\* assertion, an annotation or an implicit null check of phi).
RefinesLater(b, phi) ==
  \E o \in {BlockAt(b).ops[j] : j \in 1 .. Len(BlockAt(b).ops)} :
     /\ o > phi
     /\ Get(o).opcode \in {"WasmTypeCast", "AssertNotNull", "WasmTypeAnnotation",
                           "StructGet", "StructSet", "ArrayLength"}
     /\ ResolveAliases(Get(o).in[1]) = phi

AllPredecessorsReachable(b) ==
  \A j \in 1 .. Len(BlockAt(b).preds) : IsReachable(BlockAt(b).preds[j])

(***************************************************************************)
(* C3 as stated: when Run has returned, every phi of a block seeded by a   *)
(* merge is, in the block's recorded snapshot, unknown or a supertype of   *)
(* (or equal to) the type of its i-th input in the recorded snapshot of    *)
(* the i-th predecessor, for every predecessor flagged reachable whose     *)
(* input type is neither unknown nor bottom.                               *)
(***************************************************************************)
C3_Soundness_AsStated ==
  pc = "done" =>
    \A b \in MergeBlocks : \A phi \in PhisOf(b) :
      \A i \in 1 .. Len(BlockAt(b).preds) : PhiCovers(b, phi, i)

\* Run has returned after a revisit, and the phi of a loop header whose
\* predecessors are reachable is a known strict supertype of the type
\* arriving over the backedge.
C3_Witness ==
  /\ pc = "done"
  /\ \E b \in MergeBlocks : \E phi \in PhisOf(b) :
       /\ IsLoop(b)
       /\ visited_[LastPredecessor(b)] = 2
       /\ ~RefinesLater(b, phi)
       /\ AllPredecessorsReachable(b)
       /\ InputTypeFrom(b, phi, 2) \in RefTypes
       /\ block_to_snapshot_[b][1][phi] \in RefTypes
       /\ block_to_snapshot_[b][1][phi] # InputTypeFrom(b, phi, 2)

(***************************************************************************)
(* Monotonic narrowing within a block.                                     *)
(***************************************************************************)
\* Type new is equal to or more specific than type old: unknown is the least
\* specific type, bottom the most specific one.
MoreSpecificOrEqual(new, old) ==
  \/ old = Unknown
  \/ new = old
  \/ new = kWasmBottom
  \/ new \in RefTypes /\ old \in RefTypes /\ IsSubtypeOf(new, old)

\* A step of the processing of a block that applies a transfer function: the
\* branch-target refinement or one operation.
IsTransferStep ==
  pc \in {"branch", "hbranch", "ops", "hops"} /\ pc' \in {"ops", "hops"}

(***************************************************************************)
(* C4.  During the processing of a block every step that applies a         *)
(* transfer function (a refinement, an implicit null check, a phi, the     *)
(* branch-target refinement) leaves every value with a type equal to or    *)
(* more specific than the type stored before the step.                     *)
(***************************************************************************)
C4_MonotonicNarrowing ==
  [][IsTransferStep =>
       \A k \in OpIds : MoreSpecificOrEqual(types_table_'[k], types_table_[k])]_vars

\* A block with one predecessor is being processed and holds, for a value
\* whose type was known in the predecessor, a different known type.
C4_Witness ==
  /\ pc = "ops"
  /\ active
  /\ current_block_ # NoBlock
  /\ Len(BlockAt(current_block_).preds) = 1
  /\ \E k \in OpIds :
       /\ block_to_snapshot_[BlockAt(current_block_).preds[1]][1][k] \in RefTypes
       /\ types_table_[k] \in RefTypes
       /\ types_table_[k] # block_to_snapshot_[BlockAt(current_block_).preds[1]][1][k]

(***************************************************************************)
(* Merges and phis under a reordering of the predecessors.                 *)
(***************************************************************************)
\* The permutations of 1 .. n.
Perms(n) ==
  {f \in [1 .. n -> 1 .. n] : \A i, j \in 1 .. n : f[i] = f[j] => i = j}

Permute(seq, f) == [i \in 1 .. Len(seq) |-> seq[f[i]]]

\* The block being processed was seeded by a merge of its predecessors.
InMerge ==
  /\ pc \in {"ops", "hops"}
  /\ current_block_ # NoBlock
  /\ merge_values_ # <<>>

\* The reachability flags the merge of the block being processed was given.
MergeReachable == PredecessorReachable(block_is_unreachable_, current_block_)

\* The type ProcessPhi stores for a phi whose own seeded type is seeded and
\* whose input types are inputs.
PhiResult(seeded, inputs) ==
  IF PhiUnionType(inputs) = <<>> THEN seeded
  ELSE RefinedType(seeded, PhiUnionType(inputs)[1])

(***************************************************************************)
(* C5.  Merge commutativity: at a block seeded by a merge, presenting the  *)
(* predecessors (each a snapshot and a reachability flag) in any other     *)
(* order gives every key the same merged type, and presenting the inputs   *)
(* of a phi of the block in that order gives the phi the same type.        *)
(***************************************************************************)
C5_MergeCommutativity ==
  InMerge =>
    \A f \in Perms(Len(merge_values_)) :
      /\ MergedTable(Permute(merge_values_, f), Permute(MergeReachable, f))
           = MergedTable(merge_values_, MergeReachable)
      /\ \A phi \in PhisOf(current_block_) :
           PhiResult(MergedTable(Permute(merge_values_, f),
                                 Permute(MergeReachable, f))[phi],
                     Permute(PhiInputTypes(types_table_, Get(phi)), f))
             = PhiResult(MergedTable(merge_values_, MergeReachable)[phi],
                         PhiInputTypes(types_table_, Get(phi)))

\* A merge of three predecessors, one of them flagged unreachable, whose
\* phi has inputs of different types and is given a known type.
C5_Witness ==
  /\ InMerge
  /\ Len(merge_values_) = 3
  /\ \E i \in 1 .. 3 : ~MergeReachable[i]
  /\ \E phi \in PhisOf(current_block_) :
       /\ PhiUnionType(PhiInputTypes(types_table_, Get(phi))) # <<>>
       /\ PhiUnionType(PhiInputTypes(types_table_, Get(phi)))[1] \in RefTypes
       /\ \E i, j \in 1 .. 3 :
            /\ PhiInputTypes(types_table_, Get(phi))[i] \in RefTypes
            /\ PhiInputTypes(types_table_, Get(phi))[j] \in RefTypes
            /\ PhiInputTypes(types_table_, Get(phi))[i]
                 # PhiInputTypes(types_table_, Get(phi))[j]

(***************************************************************************)
(* The seeded types of a merge, against the merge rule stated on the set   *)
(* of contributed types.                                                   *)
(***************************************************************************)
\* The types contributed for a key: those of the predecessors flagged
\* reachable whose type is not bottom.
Contributions(predecessors, reachable) ==
  {predecessors[i] : i \in {j \in 1 .. Len(predecessors) :
                              reachable[j] /\ predecessors[j] # kWasmBottom}}

RECURSIVE UnionOfSet(_)
UnionOfSet(S) ==
  LET t == CHOOSE x \in S : TRUE
  IN IF S = {t} THEN t ELSE Union(t, UnionOfSet(S \ {t}))

\* Unknown if a contribution is unknown, otherwise the union; bottom if
\* there is no contribution.
ExpectedMerge(predecessors, reachable) ==
  LET c == Contributions(predecessors, reachable)
  IN IF c = {} THEN kWasmBottom
     ELSE IF Unknown \in c THEN Unknown
     ELSE UnionOfSet(c)

\* The block being processed has just been seeded by a merge.
JustMerged == InMerge /\ opPos = 1

(***************************************************************************)
(* C6.  At a block seeded by a merge the seeded type of every key is the   *)
(* merge of the types contributed by the predecessors that are flagged     *)
(* reachable and whose type is not bottom (bottom if there is none), and   *)
(* it is the same whatever type the key has in a predecessor flagged       *)
(* unreachable.                                                            *)
(***************************************************************************)
C6_MergeOfContributions ==
  JustMerged =>
    \A k \in OpIds :
      /\ types_table_[k]
           = ExpectedMerge(ValuesOf(merge_values_, k), MergeReachable)
      /\ \A i \in 1 .. Len(merge_values_) : \A t \in Types :
           ~MergeReachable[i] =>
             MergeFun([ValuesOf(merge_values_, k) EXCEPT ![i] = t],
                      MergeReachable).res = types_table_[k]

\* A block has just been seeded by a merge with a predecessor flagged
\* unreachable that holds, for some key, a known type different from the
\* known type seeded for the key.
C6_Witness ==
  /\ JustMerged
  /\ \E k \in OpIds : \E i \in 1 .. Len(merge_values_) :
       /\ ~MergeReachable[i]
       /\ merge_values_[i][k] \in RefTypes
       /\ types_table_[k] \in RefTypes
       /\ types_table_[k] # merge_values_[i][k]

(***************************************************************************)
(* C7.  Sealed snapshots are never mutated: the snapshot recorded for a    *)
(* block X changes only in the step that seals a processing of X (it       *)
(* becomes the snapshot just sealed) or in the step that replaces the      *)
(* snapshot of loop header X by the re-derived one after the comparison    *)
(* observed a difference.  Every other step, the seeding of a merge from   *)
(* recorded snapshots and the re-derivation of a loop header included,     *)
(* leaves every recorded snapshot as it is.                                *)
(***************************************************************************)
C7_SealOf(X) ==
  /\ pc = "ops"
  /\ pc' \in {"iter", "hstart"}
  /\ X = block
  /\ block_to_snapshot_'[X] = <<types_table_>>

C7_ReplacementOf(X) ==
  /\ pc = "discard"
  /\ needs_revisit
  /\ X = LoopHeaderOf(block)
  /\ snapshot[1] # block_to_snapshot_[X][1]
  /\ block_to_snapshot_'[X] = snapshot

C7_SnapshotsImmutable ==
  [][\A X \in BlockIds :
       block_to_snapshot_'[X] # block_to_snapshot_[X]
         => (C7_SealOf(X) \/ C7_ReplacementOf(X))]_vars

\* A loop header has been re-derived with a result that differs from its
\* recorded snapshot, which is still the one recorded at its first seal.
C7_Witness ==
  /\ pc = "discard"
  /\ needs_revisit
  /\ snapshot # block_to_snapshot_[LoopHeaderOf(block)]

(***************************************************************************)
(* Branch targets: the state right after the branch-target refinement.     *)
(***************************************************************************)
\* The block being processed is the target of a branch and its snapshot has
\* just been refined by ProcessBranchOnTarget.
JustBranched ==
  /\ pc = "ops"
  /\ opPos = 1
  /\ current_block_ # NoBlock
  /\ HasBranch(current_block_)

BranchPredecessor == BlockAt(current_block_).preds[1]

BranchOp == LastOperation(BranchPredecessor)

BranchCondition == Get(BranchOp.in[1])

BranchObject == ResolveAliases(BranchCondition.in[1])

\* The type of the condition's object in the predecessor's snapshot.
BranchObjectBefore == block_to_snapshot_[BranchPredecessor][1][BranchObject]

\* Scenario B: the branch is on the null check of an object whose type is a
\* non-nullable reference type in the predecessor's snapshot.
ScenarioB ==
  /\ JustBranched
  /\ BranchCondition.opcode = "IsNull"
  /\ is_non_nullable(BranchObjectBefore)

(***************************************************************************)
(* C8.  Scenario B: in the null-taken (true) target the block is flagged   *)
(* unreachable and the object keeps its type; in the false target the      *)
(* block is not flagged unreachable and the object's type after the        *)
(* refinement is the type before it.                                       *)
(***************************************************************************)
C8_ScenarioB ==
  ScenarioB =>
    /\ types_table_[BranchObject] = BranchObjectBefore
    /\ current_block_ = BranchOp.dst[1] => ~IsReachable(current_block_)
    /\ current_block_ = BranchOp.dst[2] => IsReachable(current_block_)

\* The false target of the scenario has been refined after the true target
\* was flagged unreachable.
C8_Witness ==
  /\ ScenarioB
  /\ current_block_ = BranchOp.dst[2]
  /\ ~IsReachable(BranchOp.dst[1])
  /\ IsReachable(current_block_)

\* Scenario C: the block being processed is the false target of a branch on
\* a type check of an object against U.
ScenarioC ==
  /\ JustBranched
  /\ BranchCondition.opcode = "WasmTypeCheck"
  /\ current_block_ = BranchOp.dst[2]

(***************************************************************************)
(* C9.  Scenario C: the false target of a type-check branch never refines: *)
(* its seeded snapshot is the predecessor's snapshot.  The block is        *)
(* flagged unreachable exactly when the object's known type is a subtype   *)
(* of U; so an object of unknown type leaves the false target reachable    *)
(* and the object unknown.                                                 *)
(***************************************************************************)
C9_ScenarioC ==
  ScenarioC =>
    /\ types_table_ = block_to_snapshot_[BranchPredecessor][1]
    /\ ~IsReachable(current_block_)
         <=> IsSubtypeOf(BranchObjectBefore, BranchCondition.ty)
    /\ BranchObjectBefore = Unknown
         => (IsReachable(current_block_) /\ types_table_[BranchObject] = Unknown)

\* The false target of a type check of an object of unknown type has been
\* seeded, after the true target refined the object to U.
C9_Witness ==
  /\ ScenarioC
  /\ BranchObjectBefore = Unknown
  /\ block_to_snapshot_[BranchOp.dst[1]] # <<>>
  /\ block_to_snapshot_[BranchOp.dst[1]][1][BranchObject] = BranchCondition.ty
  /\ IsReachable(current_block_)

(***************************************************************************)
(* Scenario A: the operation about to be processed is a cast to a          *)
(* non-null type U of an object whose known type T is a non-null subtype   *)
(* of U.                                                                   *)
(***************************************************************************)
NextOperation == BlockAt(current_block_).ops[opPos]

CastObject == ResolveAliases(Get(NextOperation).in[1])

ScenarioA ==
  /\ pc \in {"ops", "hops"}
  /\ opPos <= Len(BlockAt(current_block_).ops)
  /\ Get(NextOperation).opcode = "WasmTypeCast"
  /\ is_non_nullable(types_table_[CastObject])
  /\ is_non_nullable(Get(NextOperation).ty)
  /\ IsSubtypeOf(types_table_[CastObject], Get(NextOperation).ty)

(***************************************************************************)
(* C10.  Scenario A: processing the cast records T as the cast's           *)
(* input-type metadata, leaves T stored for the object, and does not       *)
(* change the current block's unreachable flag.                            *)
(***************************************************************************)
C10_ScenarioA ==
  [][(ScenarioA /\ opPos' = opPos + 1) =>
       /\ input_type_map_'[NextOperation] = <<types_table_[CastObject]>>
       /\ types_table_'[CastObject] = types_table_[CastObject]
       /\ block_is_unreachable_' = block_is_unreachable_]_vars

\* A cast of the scenario to a strict supertype of the object's type has
\* been processed in a block that is not flagged unreachable.
C10_Witness ==
  /\ pc = "ops"
  /\ opPos > 1
  /\ Get(BlockAt(current_block_).ops[opPos - 1]).opcode = "WasmTypeCast"
  /\ IsReachable(current_block_)
  /\ \E T \in RefTypes :
       /\ input_type_map_[BlockAt(current_block_).ops[opPos - 1]] = <<T>>
       /\ is_non_nullable(T)
       /\ is_non_nullable(Get(BlockAt(current_block_).ops[opPos - 1]).ty)
       /\ T # Get(BlockAt(current_block_).ops[opPos - 1]).ty
       /\ IsSubtypeOf(T, Get(BlockAt(current_block_).ops[opPos - 1]).ty)
       /\ types_table_[ResolveAliases(BlockAt(current_block_).ops[opPos - 1])] = T

(***************************************************************************)
(* Scenario E: the operation about to be processed is a struct field read  *)
(* on an object whose known type is a nullable reference type.             *)
(***************************************************************************)
ReadObject == ResolveAliases(Get(NextOperation).in[1])

ScenarioE ==
  /\ pc \in {"ops", "hops"}
  /\ opPos <= Len(BlockAt(current_block_).ops)
  /\ Get(NextOperation).opcode = "StructGet"
  /\ is_nullable(types_table_[ReadObject])

(***************************************************************************)
(* C11.  Scenario E: in every processing of the block (first visit or loop *)
(* revisit) the struct field read records the object's nullable type S? as *)
(* its metadata, leaves the object with the non-null type S, and gives its *)
(* result exactly the declared field type F.                               *)
(***************************************************************************)
C11_ScenarioE ==
  [][(ScenarioE /\ opPos' = opPos + 1) =>
       /\ input_type_map_'[NextOperation] = <<types_table_[ReadObject]>>
       /\ types_table_'[ReadObject] = AsNonNull(types_table_[ReadObject])
       /\ types_table_'[NextOperation] = Get(NextOperation).ty]_vars

\* A struct field read on a nullable object has been processed in a revisit
\* of a loop body, its result already known from the earlier processing.
C11_Witness ==
  /\ pc = "ops"
  /\ opPos > 1
  /\ curr_.generation >= 2
  /\ Get(BlockAt(current_block_).ops[opPos - 1]).opcode = "StructGet"
  /\ input_type_map_[BlockAt(current_block_).ops[opPos - 1]] # <<>>
  /\ is_nullable(input_type_map_[BlockAt(current_block_).ops[opPos - 1]][1])
  /\ types_table_[BlockAt(current_block_).ops[opPos - 1]]
       = Get(BlockAt(current_block_).ops[opPos - 1]).ty
  /\ block_to_snapshot_[current_block_] # <<>>
  /\ block_to_snapshot_[current_block_][1][BlockAt(current_block_).ops[opPos - 1]]
       = Get(BlockAt(current_block_).ops[opPos - 1]).ty

(***************************************************************************)
(* The revisit decision after the re-derivation of a loop header.          *)
(***************************************************************************)
\* The header snapshot recorded before the re-derivation.
OldHeaderSnapshot == block_to_snapshot_[LoopHeaderOf(block)][1]

\* The keys to which the recorded and the re-derived header snapshot give
\* different types.
DifferingKeys == {k \in OpIds : snapshot[1][k] # OldHeaderSnapshot[k]}

(***************************************************************************)
(* C12 as stated: after the re-derivation of a loop header the driver      *)
(* decides to replace the header's snapshot and to revisit the loop body   *)
(* if and only if the re-derived and the recorded snapshot give a          *)
(* different type to at least one key, also when one of the two types is   *)
(* bottom.                                                                 *)
(***************************************************************************)
C12_RevisitIffDifferent ==
  pc = "discard" => (needs_revisit <=> DifferingKeys # {})

\* The re-derived header snapshot differs from the recorded one, in every
\* differing key one of the two types is bottom, and no revisit is decided.
C12_Witness ==
  /\ pc = "discard"
  /\ DifferingKeys # {}
  /\ \A k \in DifferingKeys :
       kWasmBottom \in {snapshot[1][k], OldHeaderSnapshot[k]}
  /\ ~needs_revisit

(***************************************************************************)
(* The contract of RefineTypeKnowledge, on every state in which a block is *)
(* being processed, for every value and every proposed type.               *)
(***************************************************************************)
\* A block is being processed on the active snapshot.
Processing ==
  /\ pc \in {"branch", "hbranch", "ops", "hops"}
  /\ active
  /\ current_block_ # NoBlock

\* RefineTypeKnowledge(object, new_type) in the current state meets the
\* contract of refine.
RefineContract(object, new_type) ==
  LET previous == types_table_[ResolveAliases(object)]
      stored == IF previous = Unknown THEN new_type
                ELSE Intersection(previous, new_type)
      after == RefineTypeKnowledge(State, object, new_type)
  IN /\ after.tbl[ResolveAliases(object)] = stored
     /\ PreviousValue(State, object) = previous
     /\ \A k \in OpIds \ {ResolveAliases(object)} :
          after.tbl[k] = types_table_[k]
     /\ is_uninhabited(stored) => current_block_ \in after.unr
     /\ ~is_uninhabited(stored) =>
          (current_block_ \in after.unr <=> current_block_ \in block_is_unreachable_)
     /\ \A b \in BlockIds \ {current_block_} :
          b \in after.unr <=> b \in block_is_unreachable_
     /\ after.itm = input_type_map_

(***************************************************************************)
(* C13.  refine(value, proposed), for every value and proposed type:       *)
(* the alias-resolved value gets intersect(previous, proposed) (proposed   *)
(* when previous is unknown), the returned type is the previous type, the  *)
(* current block is flagged unreachable if the stored type is uninhabited  *)
(* and its flag is otherwise left as it was, and no other key and no other *)
(* block's flag changes.                                                   *)
(***************************************************************************)
C13_RefineContract ==
  Processing =>
    \A object \in OpIds : \A new_type \in Types :
      RefineContract(object, new_type)

\* A refinement has stored bottom for a value of the entry block, which is
\* flagged unreachable while an operation after it is processed.
C13_Witness ==
  /\ Processing
  /\ current_block_ = 0
  /\ opPos > 1
  /\ ~IsReachable(current_block_)
  /\ \E k \in OpIds : types_table_[k] = kWasmBottom

(***************************************************************************)
(* The implicit null check of a struct field read, a struct field write or *)
(* an array length.                                                        *)
(***************************************************************************)
\* The operation about to be processed performs an implicit null check.
ImplicitNullCheck ==
  /\ pc \in {"ops", "hops"}
  /\ opPos <= Len(BlockAt(current_block_).ops)
  /\ Get(NextOperation).opcode \in {"StructGet", "StructSet", "ArrayLength"}

(***************************************************************************)
(* C14 as stated: whenever the type the implicit null check stores for the *)
(* object is uninhabited (for example the non-null form of the null        *)
(* sentinel), the current block is flagged unreachable.                    *)
(***************************************************************************)
C14_NullCheckFlags ==
  [][(ImplicitNullCheck /\ opPos' = opPos + 1
        /\ is_uninhabited(types_table_'[ReadObject]))
       => current_block_ \in block_is_unreachable_']_vars

\* An implicit null check has stored the uninhabited non-null form of the
\* null sentinel for its object, in a block that is not flagged unreachable.
C14_Witness ==
  /\ pc = "ops"
  /\ opPos > 1
  /\ Get(BlockAt(current_block_).ops[opPos - 1]).opcode
       \in {"StructGet", "StructSet", "ArrayLength"}
  /\ input_type_map_[BlockAt(current_block_).ops[opPos - 1]]
       = <<ToNullSentinel(Unknown)>>
  /\ types_table_[ResolveAliases(
                    Get(BlockAt(current_block_).ops[opPos - 1]).in[1])]
       = Ref("none")
  /\ IsReachable(current_block_)

(***************************************************************************)
(* The phi rule outside the optimistic evaluation, stated on the types the *)
(* phi's inputs have in the recorded snapshots of the predecessors.        *)
(***************************************************************************)
\* ProcessOperations is about to process a phi with the full rule.
FullPhiStep ==
  /\ pc \in {"ops", "hops"}
  /\ opPos <= Len(BlockAt(current_block_).ops)
  /\ Get(NextOperation).opcode = "Phi"
  /\ ~is_first_loop_header_evaluation_

\* The types t_i of the inputs of the phi about to be processed.
PhiInputs ==
  [i \in 1 .. Len(Get(NextOperation).in) |->
     InputTypeFrom(current_block_, NextOperation, i)]

\* Unknown if a t_i is unknown, otherwise the union of the t_i that are not
\* bottom, bottom if all are.
PhiRule(t) ==
  LET known == {t[i] : i \in 1 .. Len(t)} \ {kWasmBottom}
  IN IF Unknown \in known THEN Unknown
     ELSE IF known = {} THEN kWasmBottom
     ELSE UnionOfSet(known)

C15_SeededWitness ==
  /\ pc \in {"ops", "hops"}
  /\ opPos > 1
  /\ ~is_first_loop_header_evaluation_
  /\ LET phi == BlockAt(current_block_).ops[opPos - 1]
         t == [i \in 1 .. Len(Get(phi).in) |->
                 InputTypeFrom(current_block_, phi, i)]
     IN /\ Get(phi).opcode = "Phi"
        /\ \E i \in 1 .. Len(t) : t[i] \in RefTypes
        /\ \A i \in 1 .. Len(t) : t[i] # Unknown
        /\ types_table_[phi] = kWasmBottom

(***************************************************************************)
(* Dead edges at a phi: the inputs arriving from predecessors flagged      *)
(* unreachable.                                                            *)
(***************************************************************************)
\* The input types of the phi about to be processed, those arriving from
\* a predecessor flagged unreachable replaced by bottom.
LiveInputs ==
  [i \in 1 .. Len(PhiInputs) |->
     IF IsReachable(BlockAt(current_block_).preds[i]) THEN PhiInputs[i]
     ELSE kWasmBottom]

\* The phi about to be processed has an input that arrives from a
\* predecessor flagged unreachable with a type that is not bottom.
DeadEdgeWithType ==
  /\ FullPhiStep
  /\ \E i \in 1 .. Len(PhiInputs) :
       /\ ~IsReachable(BlockAt(current_block_).preds[i])
       /\ PhiInputs[i] # kWasmBottom

(***************************************************************************)
(* C16.  At a merge block or a re-derived loop header the type computed    *)
(* for a phi does not depend on the types of the inputs that arrive from   *)
(* predecessors flagged unreachable: it is the type computed with those    *)
(* inputs taken as bottom, the type a dead edge contributes.               *)
(***************************************************************************)
C16_DeadEdge ==
  [][(FullPhiStep /\ opPos' = opPos + 1)
       => types_table_'[NextOperation] =
            PhiResult(types_table_[NextOperation], LiveInputs)]_vars

\* A phi is about to be processed with an input of a reference type that
\* arrives from a predecessor flagged unreachable, another input of a
\* reference type arriving from a predecessor flagged reachable.
C16_Witness ==
  /\ DeadEdgeWithType
  /\ \E i, j \in 1 .. Len(PhiInputs) :
       /\ ~IsReachable(BlockAt(current_block_).preds[i])
       /\ PhiInputs[i] \in RefTypes
       /\ IsReachable(BlockAt(current_block_).preds[j])
       /\ PhiInputs[j] \in RefTypes
       /\ ~IsSubtypeOf(PhiInputs[i], PhiInputs[j])

(***************************************************************************)
(* The optimistic first evaluation of a loop header.                       *)
(***************************************************************************)
\* The block being processed is a loop header whose backedge predecessor
\* has no recorded snapshot.
FirstHeaderEvaluation ==
  /\ IsLoop(current_block_)
  /\ block_to_snapshot_[LastPredecessor(current_block_)] = <<>>

\* ProcessOperations is about to process a phi.
PhiStep ==
  /\ pc \in {"ops", "hops"}
  /\ opPos <= Len(BlockAt(current_block_).ops)
  /\ Get(NextOperation).opcode = "Phi"

(***************************************************************************)
(* C17.  While a block is processed the optimistic flag is set exactly if  *)
(* the block is a loop header whose backedge predecessor has no recorded   *)
(* snapshot; a phi processed then is refined with the type of its first    *)
(* input only, and a phi processed in any other processing, the block      *)
(* after such a header and the re-derivations of the header included, is   *)
(* processed with the full rule on a merge of all predecessors.            *)
(***************************************************************************)
C17_OptimisticEvaluation ==
  /\ [](Processing =>
          (is_first_loop_header_evaluation_ <=> FirstHeaderEvaluation))
  /\ [][(PhiStep /\ opPos' = opPos + 1) =>
          IF FirstHeaderEvaluation
          THEN /\ merge_values_ = <<>>
               /\ types_table_'[NextOperation] =
                    RefinedType(types_table_[NextOperation],
                                GetResolvedType(types_table_,
                                                Get(NextOperation).in[1]))
          ELSE /\ merge_values_ = PredecessorSnapshots(current_block_)
               /\ Len(merge_values_) = Len(BlockAt(current_block_).preds)
               /\ types_table_'[NextOperation] =
                    PhiResult(types_table_[NextOperation], PhiInputs)]_vars

\* The header of a loop has been processed optimistically, its phi having
\* the type of the forward input, and later re-derived with the full rule,
\* its phi then having another type.
C17_Witness ==
  /\ pc = "hops"
  /\ opPos > 1
  /\ ~is_first_loop_header_evaluation_
  /\ IsLoop(current_block_)
  /\ LET phi == BlockAt(current_block_).ops[opPos - 1]
     IN /\ Get(phi).opcode = "Phi"
        /\ block_to_snapshot_[current_block_] # <<>>
        /\ block_to_snapshot_[current_block_][1][phi] =
             InputTypeFrom(current_block_, phi, 1)
        /\ types_table_[phi] \in RefTypes
        /\ types_table_[phi] # block_to_snapshot_[current_block_][1][phi]

(***************************************************************************)
(* The reachability flag of the block being processed, step by step: the   *)
(* events of one step of the processing that flag the block.               *)
(***************************************************************************)
\* The step about to be taken is one iteration of ProcessOperations.
OperationStep ==
  /\ pc \in {"ops", "hops"}
  /\ opPos <= Len(BlockAt(current_block_).ops)

\* The step about to be taken is the branch analysis of the predecessor.
BranchStep == pc \in {"branch", "hbranch"}

\* The keys the next operation refines.
RefinedKeys ==
  LET op == Get(NextOperation) IN
  IF op.opcode \in {"WasmTypeCast", "AssertNotNull", "WasmTypeAnnotation"}
  THEN {ResolveAliases(op.in[1])}
  ELSE IF op.opcode \in {"Null", "GlobalGet", "WasmRefFunc", "StructGet",
                         "WasmAllocateArray", "WasmAllocateStruct"}
  THEN {NextOperation}
  ELSE IF op.opcode = "Parameter"
  THEN (IF op.pidx # kWasmInstanceParameterIndex THEN {NextOperation} ELSE {})
  ELSE IF op.opcode = "Phi"
  THEN (IF \/ is_first_loop_header_evaluation_
           \/ \A i \in 1 .. Len(PhiInputs) : PhiInputs[i] # Unknown
        THEN {NextOperation} ELSE {})
  ELSE {}

\* The keys the branch analysis refines.
BranchRefinedKeys ==
  IF \/ /\ BranchCondition.opcode = "WasmTypeCheck"
        /\ BranchOp.dst[1] = current_block_
     \/ /\ BranchCondition.opcode = "IsNull"
        /\ ~(/\ BranchOp.dst[1] = current_block_
             /\ is_non_nullable(types_table_[BranchObject]))
  THEN {BranchObject} ELSE {}

\* The branch analysis proves the block unreachable: it is the target of a
\* failing type check that always succeeds, or the null-taken target for an
\* object that is not nullable.
BranchProvesUnreachable ==
  \/ /\ BranchCondition.opcode = "WasmTypeCheck"
     /\ BranchOp.dst[1] # current_block_
     /\ IsSubtypeOf(types_table_[BranchObject], BranchCondition.ty)
  \/ /\ BranchCondition.opcode = "IsNull"
     /\ BranchOp.dst[1] = current_block_
     /\ is_non_nullable(types_table_[BranchObject])

\* The step flags the block: a refinement stores an uninhabited type, an
\* implicit null check finds one, or the branch analysis proves the block
\* unreachable.
FlaggingEvent ==
  \/ /\ OperationStep
     /\ \/ \E k \in RefinedKeys : is_uninhabited(types_table_'[k])
        \/ /\ ImplicitNullCheck
           /\ is_uninhabited(types_table_[ReadObject])
  \/ /\ BranchStep
     /\ \/ \E k \in BranchRefinedKeys : is_uninhabited(types_table_'[k])
        \/ BranchProvesUnreachable

(***************************************************************************)
(* C18.  The flag of a block is cleared when its processing starts,        *)
(* whatever the flags of its predecessors and the seeded snapshot are; a   *)
(* step of the processing sets it exactly if a refinement stores an        *)
(* uninhabited type, an implicit null check finds an uninhabited type or   *)
(* the branch analysis proves the block unreachable, and never clears it;  *)
(* no step changes the flag of a block other than the one processed.       *)
(***************************************************************************)
C18_ReachabilityFlag ==
  [][/\ (pc \in {"start", "hstart"})
          => block_is_unreachable_' = block_is_unreachable_ \ {Processed}
     /\ (OperationStep \/ BranchStep)
          => /\ current_block_ \in block_is_unreachable_'
                  <=> (current_block_ \in block_is_unreachable_ \/ FlaggingEvent)
             /\ block_is_unreachable_' \ {current_block_}
                  = block_is_unreachable_ \ {current_block_}
     /\ ~(pc \in {"start", "hstart"} \/ OperationStep \/ BranchStep)
          => block_is_unreachable_' = block_is_unreachable_]_vars

\* The re-derivation of a loop header has started: the flag of the header
\* is clear, although the header's recorded snapshot holds an uninhabited
\* type for its phi, which its earlier processing stored (and was flagged
\* for), a predecessor is flagged and the seeded snapshot holds bottom.
C18_Witness ==
  /\ pc = "hops"
  /\ opPos = 1
  /\ IsReachable(current_block_)
  /\ Get(NextOperation).opcode = "Phi"
  /\ block_to_snapshot_[current_block_] # <<>>
  /\ is_uninhabited(block_to_snapshot_[current_block_][1][NextOperation])
  /\ \E i \in 1 .. Len(BlockAt(current_block_).preds) :
       ~IsReachable(BlockAt(current_block_).preds[i])
  /\ \E k \in OpIds : types_table_[k] = kWasmBottom

(***************************************************************************)
(* Alias transparency: the identities of the pass-through operations and   *)
(* the values narrowed through them.                                       *)
(***************************************************************************)
\* The identities of the pass-through operations of the graph.
PassThrough ==
  {v \in OpIds : Get(v).opcode \in {"WasmTypeCast", "AssertNotNull",
                                    "WasmTypeAnnotation"}}

\* The members of the alias chain of v: the identities resolved to the
\* same value.
AliasChain(v) == {w \in OpIds : ResolveAliases(w) = ResolveAliases(v)}

\* resolve is idempotent and never ends on a pass-through operation.
ResolveIdempotent ==
  \A v \in OpIds : /\ ResolveAliases(ResolveAliases(v)) = ResolveAliases(v)
                   /\ ResolveAliases(v) \notin PassThrough

\* A step of a transfer function or of the branch refinement writes no
\* pass-through identity.
AliasNeverWritten ==
  (OperationStep \/ BranchStep)
    => \A v \in PassThrough : types_table_'[v] = types_table_[v]

\* A narrowing applied through a pass-through operation is the type read
\* through every member of its alias chain, and the type the operation
\* found is the one that was read through every member before.
ChainNarrowing ==
  (OperationStep /\ NextOperation \in PassThrough /\ opPos' = opPos + 1)
    => \A w \in AliasChain(NextOperation) :
         /\ GetResolvedType(types_table_', w) =
              RefinedType(GetResolvedType(types_table_, w),
                          IF Get(NextOperation).opcode = "AssertNotNull"
                          THEN AsNonNull(Get(NextOperation).ty)
                          ELSE Get(NextOperation).ty)
         /\ Get(NextOperation).opcode # "WasmTypeAnnotation"
              => input_type_map_'[NextOperation] =
                   <<GetResolvedType(types_table_, w)>>

\* The types the pass-through identities have in the active snapshot and
\* in the recorded snapshots are all in S.
AliasTypesIn(S) ==
  \A v \in PassThrough :
     /\ active => types_table_[v] \in S
     /\ \A b \in BlockIds :
          block_to_snapshot_[b] # <<>> => block_to_snapshot_[b][1][v] \in S
     /\ snapshot # <<>> => snapshot[1][v] \in S

(***************************************************************************)
(* C19 as stated: in every active and sealed snapshot the identity of a    *)
(* pass-through operation maps to unknown and is never written, resolve is *)
(* idempotent, and a narrowing applied through a member of an alias chain  *)
(* is the type read through every other member.                            *)
(***************************************************************************)
C19_AliasTransparency_AsStated ==
  /\ [](ResolveIdempotent /\ AliasTypesIn({Unknown}))
  /\ [][AliasNeverWritten /\ ChainNarrowing]_vars

(***************************************************************************)
(* C19, as the code has it.  No transfer function and no branch refinement *)
(* writes the identity of a pass-through operation, resolve is idempotent, *)
(* and a narrowing applied through a member of an alias chain is the type  *)
(* read through every other member; the identity of a pass-through         *)
(* operation maps to unknown, or to bottom, the type a merge without       *)
(* contributing predecessor seeds for every key.                           *)
(***************************************************************************)
C19_AliasTransparency ==
  /\ [](ResolveIdempotent /\ AliasTypesIn({Unknown, kWasmBottom}))
  /\ [][/\ AliasNeverWritten
        /\ ChainNarrowing
        /\ \A v \in PassThrough :
             (types_table_'[v] # types_table_[v])
               => /\ pc \in {"start", "hstart", "cmp"}
                  /\ types_table_'[v] \in {Unknown, kWasmBottom}]_vars

\* A cast of a cast has narrowed the value both resolve to: the narrowed
\* type is read through both casts, whose own identities map to unknown.
C19_Witness ==
  /\ pc \in {"ops", "hops"}
  /\ opPos > 1
  /\ LET cast == BlockAt(current_block_).ops[opPos - 1]
     IN /\ Get(cast).opcode = "WasmTypeCast"
        /\ Get(cast).in[1] \in PassThrough
        /\ input_type_map_[cast] # <<>>
        /\ input_type_map_[cast][1] \in RefTypes
        /\ GetResolvedType(types_table_, cast) \in RefTypes
        /\ GetResolvedType(types_table_, cast) # input_type_map_[cast][1]
        /\ GetResolvedType(types_table_, Get(cast).in[1]) =
             GetResolvedType(types_table_, cast)
        /\ types_table_[cast] = Unknown
        /\ types_table_[Get(cast).in[1]] = Unknown

(***************************************************************************)
(* The single active snapshot: the calls of the snapshot store made by     *)
(* Run, ProcessBlock and CreateMergeSnapshot.                              *)
(***************************************************************************)
\* The step about to be taken starts a snapshot: StartNewSnapshotFor with
\* the snapshots it needs recorded, or the comparison merge.
StartsSnapshot ==
  \/ /\ pc \in {"start", "hstart"}
     /\ \A p \in SnapshotsNeeded(Processed) : block_to_snapshot_[p] # <<>>
  \/ pc = "cmp"

\* The step about to be taken seals the active snapshot: the end of a
\* block's processing, or the discarding of the comparison merge.
SealsSnapshot ==
  \/ /\ pc \in {"ops", "hops"}
     /\ opPos > Len(BlockAt(current_block_).ops)
  \/ pc = "discard"

\* The step about to be taken gets or sets types of the snapshot store.
GetsOrSets ==
  \/ BranchStep
  \/ /\ pc \in {"ops", "hops"}
     /\ opPos <= Len(BlockAt(current_block_).ops)

(***************************************************************************)
(* C20.  Starts and seals of the snapshot store strictly alternate: a      *)
(* snapshot is started only while none is active (also at the header       *)
(* re-derivation and at the comparison merge) and sealed only while one is *)
(* active; every get and set happens while a snapshot is active and a      *)
(* current block is set; a block becomes current only while none is; and   *)
(* when Run returns no snapshot is active and no block is current.         *)
(***************************************************************************)
C20_SingleActiveSnapshot ==
  /\ [](/\ StartsSnapshot => ~active
        /\ SealsSnapshot => active
        /\ GetsOrSets => (active /\ current_block_ \in BlockIds)
        /\ pc \in {"start", "hstart"} => current_block_ = NoBlock
        /\ pc = "done" => (~active /\ current_block_ = NoBlock))
  /\ [][/\ StartsSnapshot => active'
        /\ SealsSnapshot => ~active'
        /\ (active' # active) => (StartsSnapshot \/ SealsSnapshot)
        /\ (current_block_' # current_block_)
             => (current_block_ = NoBlock \/ current_block_' = NoBlock)]_vars

\* The comparison merge is the active snapshot: the re-derived header has
\* been sealed, no block is current, and a difference has been found.
C20_Witness ==
  /\ pc = "discard"
  /\ active
  /\ current_block_ = NoBlock
  /\ snapshot # <<>>
  /\ needs_revisit

(***************************************************************************)
(* The recorded snapshots Run, StartNewSnapshotFor and CreateMergeSnapshot *)
(* take the value() of.                                                    *)
(***************************************************************************)
\* The predecessors of b that are no loop-back predecessor: all of them,
\* but the last one of a loop header.
ForwardPredecessors(b) ==
  {BlockAt(b).preds[i] :
     i \in {j \in 1 .. Len(BlockAt(b).preds) :
              ~(IsLoop(b) /\ j = Len(BlockAt(b).preds))}}

\* The traversal has processed every forward predecessor of b before b.
ProcessedBefore(b) ==
  \A p \in ForwardPredecessors(b) : p # b /\ visited_[p] > kNotVisitedGeneration

\* The blocks whose recorded snapshot the start of the processing of b
\* reads.
SnapshotsRead(b) ==
  IF IsLoop(b) /\ pc = "start" /\ block_to_snapshot_[LastPredecessor(b)] = <<>>
  THEN ForwardPredecessors(b)
  ELSE {BlockAt(b).preds[i] : i \in 1 .. Len(BlockAt(b).preds)}

(***************************************************************************)
(* C21.  When the traversal has processed every forward predecessor of a   *)
(* block before the block, every recorded snapshot read exists when it is  *)
(* read: the forward predecessor's at a first loop header visit, the       *)
(* single predecessor's at a branch target, every predecessor's at a merge *)
(* block and at a re-derived loop header, and the header's own when the    *)
(* re-derived snapshot is compared with it; no read is undefined.          *)
(***************************************************************************)
C21_SnapshotsExist ==
  /\ (pc \in {"start", "hstart"} /\ ProcessedBefore(Processed))
       => \A p \in SnapshotsRead(Processed) : block_to_snapshot_[p] # <<>>
  /\ pc = "hstart" => ProcessedBefore(Processed)
  /\ pc = "cmp" => block_to_snapshot_[LoopHeaderOf(block)] # <<>>
  /\ (pc = "undefined") => ~ProcessedBefore(current_block_)

\* The re-derivation of a loop header has read the recorded snapshots of
\* both predecessors, the forward one and the backedge one.
C21_Witness ==
  /\ pc = "hops"
  /\ opPos = 1
  /\ IsLoop(current_block_)
  /\ ProcessedBefore(current_block_)
  /\ Len(merge_values_) = Len(BlockAt(current_block_).preds)
  /\ \A i \in 1 .. Len(merge_values_) :
       block_to_snapshot_[BlockAt(current_block_).preds[i]] = <<merge_values_[i]>>
  /\ block_to_snapshot_[current_block_] # <<>>

(***************************************************************************)
(* The operations that narrow nothing: type checks, is-null tests and the  *)
(* operations ProcessOperations has no case for.                           *)
(***************************************************************************)
\* The opcodes ProcessOperations has a transfer function for.
TransferOpcodes ==
  {"WasmTypeCast", "WasmTypeCheck", "AssertNotNull", "Null", "IsNull",
   "Parameter", "StructGet", "StructSet", "ArrayLength", "GlobalGet",
   "WasmRefFunc", "WasmAllocateArray", "WasmAllocateStruct", "Phi",
   "WasmTypeAnnotation"}

(***************************************************************************)
(* C22.  Processing a type check or an is-null test records the current    *)
(* type of the (alias-resolved) object as the input type of the operation  *)
(* and changes no other input type, no type of the active snapshot and no  *)
(* reachability flag; processing an operation without transfer function,   *)
(* the branch included, changes none of the three.                         *)
(***************************************************************************)
C22_ChecksDoNotNarrow ==
  [][(OperationStep /\ opPos' = opPos + 1) =>
       /\ Get(NextOperation).opcode \in {"WasmTypeCheck", "IsNull"}
            => /\ input_type_map_' =
                    [input_type_map_ EXCEPT ![NextOperation] =
                       <<types_table_[ReadObject]>>]
               /\ types_table_' = types_table_
               /\ block_is_unreachable_' = block_is_unreachable_
       /\ Get(NextOperation).opcode \notin TransferOpcodes
            => /\ input_type_map_' = input_type_map_
               /\ types_table_' = types_table_
               /\ block_is_unreachable_' = block_is_unreachable_]_vars

\* An is-null test or a type check of an object of a nullable reference
\* type has been processed: the type is recorded and the object still has
\* it; the branch that follows is the next operation.
C22_Witness ==
  /\ pc \in {"ops", "hops"}
  /\ opPos > 1
  /\ opPos <= Len(BlockAt(current_block_).ops)
  /\ Get(NextOperation).opcode = "Branch"
  /\ LET test == BlockAt(current_block_).ops[opPos - 1]
     IN /\ Get(test).opcode \in {"WasmTypeCheck", "IsNull"}
        /\ is_nullable(GetResolvedType(types_table_, Get(test).in[1]))
        /\ input_type_map_[test] =
             <<GetResolvedType(types_table_, Get(test).in[1])>>

(***************************************************************************)
(* The re-derivation of a loop header after its backedge block.            *)
(***************************************************************************)
\* b ends in a goto to a loop header whose last predecessor it is.
IsBackedgeBlock(b) ==
  /\ LastOperation(b).opcode = "Goto"
  /\ IsLoop(LastOperation(b).dst[1])
  /\ BlockAt(LastOperation(b).dst[1]).preds[
       Len(BlockAt(LastOperation(b).dst[1]).preds)] = b

\* The loop headers of the graph.
LoopHeaders == {h \in BlockIds : IsLoop(h)}

\* What a processing of header h leaves: its recorded snapshot, its
\* reachability flag and the input types of its operations.
HeaderState(h, snapshots, unreachable, input_types) ==
  <<snapshots[h], h \in unreachable,
    [i \in 1 .. Len(BlockAt(h).ops) |-> input_types[BlockAt(h).ops[i]]]>>

\* The step about to be taken ends the processing of a block.
EndsBlock ==
  /\ pc = "ops"
  /\ opPos > Len(BlockAt(current_block_).ops)

(***************************************************************************)
(* C23.  The re-derivation of a loop header starts only at the end of the  *)
(* processing of a block that ends in a goto to the header, is its last    *)
(* predecessor and is flagged reachable, and the comparison and the        *)
(* request of a revisit only follow such a re-derivation.  At the end of   *)
(* the processing of a backedge block flagged unreachable the traversal    *)
(* goes on with no revisit requested; and the recorded snapshot of a       *)
(* header, its flag and the input types of its operations change in no     *)
(* step but those of a processing of the header and the replacement of its *)
(* snapshot when a revisit is requested.                                   *)
(***************************************************************************)
C23_RederivationOnlyAfterBackedge ==
  /\ [](pc \in {"hstart", "hbranch", "hops", "cmp", "discard"}
          => /\ IsBackedgeBlock(block)
             /\ IsReachable(block)
             /\ block_to_snapshot_[block] # <<>>)
  /\ [][/\ (pc' = "hstart") => (EndsBlock /\ current_block_ = block)
        /\ (pc' \in {"hbranch", "hops"} /\ pc \notin {"hbranch", "hops"})
             => pc = "hstart"
        /\ (pc' = "cmp") => (pc = "hops")
        /\ (pc' = "discard") => (pc = "cmp")
        /\ (EndsBlock /\ IsBackedgeBlock(block) /\ ~IsReachable(block))
             => /\ pc' = "iter"
                /\ stack_' = stack_
                /\ ~needs_revisit'
                /\ HeaderState(LoopHeaderOf(block), block_to_snapshot_',
                               block_is_unreachable_', input_type_map_')
                     = HeaderState(LoopHeaderOf(block), block_to_snapshot_,
                                   block_is_unreachable_, input_type_map_)
        /\ (Len(stack_') > Len(stack_) /\ pc # "iter")
             => (pc = "discard" /\ needs_revisit)
        /\ \A h \in LoopHeaders :
             (HeaderState(h, block_to_snapshot_', block_is_unreachable_',
                          input_type_map_')
                # HeaderState(h, block_to_snapshot_, block_is_unreachable_,
                              input_type_map_))
               => \/ h \in {current_block_, current_block_'}
                  \/ /\ pc = "discard"
                     /\ needs_revisit
                     /\ h = LoopHeaderOf(block)]_vars

\* The backedge block of a loop has just been processed and is flagged
\* unreachable: the traversal goes on, the header keeps the snapshot of its
\* only processing.
C23_Witness ==
  /\ pc = "iter"
  /\ block # NoBlock
  /\ IsBackedgeBlock(block)
  /\ ~IsReachable(block)
  /\ block_to_snapshot_[block] # <<>>
  /\ block_to_snapshot_[LoopHeaderOf(block)] # <<>>
  /\ visited_[LoopHeaderOf(block)] = kGenerationForFirstVisit
  /\ snapshot = <<>>
  /\ ~needs_revisit

(***************************************************************************)
(* The reducer at work.  Each REDUCE method is one action: it rewrites its *)
(* operands and hands them to the next reducer of the stack.               *)
(***************************************************************************)
\* The analysis is not running while the reducer is.
AnalyzerIdle ==
  /\ graph = CHOOSE g \in DeadLoopGraphs : TRUE
  /\ stack_ = <<>>
  /\ visited_ = [b \in BlockIds |-> kNotVisitedGeneration]
  /\ curr_ = [block |-> NoBlock, generation |-> kNotVisitedGeneration]
  /\ pc = "done"
  /\ block = NoBlock
  /\ current_block_ = NoBlock
  /\ opPos = 0
  /\ active = FALSE
  /\ types_table_ = EmptySnapshot
  /\ merge_values_ = <<>>
  /\ block_to_snapshot_ = [b \in BlockIds |-> <<>>]
  /\ block_is_unreachable_ = {}
  /\ input_type_map_ = [i \in OpIds |-> <<>>]
  /\ is_first_loop_header_evaluation_ = FALSE
  /\ snapshot = <<>>
  /\ needs_revisit = FALSE

\* A load or a store arrives: any operands a LoadOp or StoreOp can have (an
\* element size needs an index to scale).
InitLoadStore ==
  /\ reducer_pc \in {"Load", "Store"}
  /\ base \in Bases
  /\ index \in Indices
  /\ kind \in LoadStoreKinds
  /\ offset \in Int32Offsets
  /\ element_size_log2 \in 0 .. MaxElementSizeLog2
  /\ element_size_log2 > 0 => index # <<>>

\* An atomic pair operation arrives.
InitAtomicWord32Pair ==
  /\ reducer_pc = "AtomicWord32Pair"
  /\ base \in Bases
  /\ index \in Indices
  /\ kind \in AtomicWord32PairKinds
  /\ offset \in Int32Offsets
  /\ element_size_log2 = 0

InitReducer ==
  /\ AnalyzerIdle
  /\ configuration \in LoadStoreSimplificationConfiguration
  /\ lowering_enabled_ \in BOOLEAN
  /\ InitLoadStore \/ InitAtomicWord32Pair

analyzer_vars ==
  <<graph, stack_, visited_, curr_, pc, block, current_block_, opPos, active,
    types_table_, merge_values_, block_to_snapshot_, block_is_unreachable_,
    input_type_map_, is_first_loop_header_evaluation_, snapshot,
    needs_revisit>>

\* The call of SimplifyLoadStore and the hand-over to Next::Reduce...
\* The two choices are drawn only where the call can depend on them: folding
\* where the index is a constant, the overflowed value where the untagging
\* overflows.
Simplified ==
  \E folded \in IF index # <<>> /\ index[1].constant
                   THEN BOOLEAN ELSE {FALSE},
     overflowed \in IF offset < kMinInt + kHeapObjectTag
                       THEN Int32Offsets ELSE {offset} :
    LET r == SimplifyLoadStore(Operands, folded, overflowed)
    IN /\ base' = r.base
       /\ index' = r.index
       /\ kind' = r.kind
       /\ offset' = r.offset
       /\ element_size_log2' = r.element_size_log2

ReduceLoad ==
  /\ reducer_pc = "Load"
  /\ Simplified
  /\ reducer_pc' = "reduced"
  /\ UNCHANGED <<configuration, lowering_enabled_>>
  /\ UNCHANGED analyzer_vars

ReduceStore ==
  /\ reducer_pc = "Store"
  /\ Simplified
  /\ reducer_pc' = "reduced"
  /\ UNCHANGED <<configuration, lowering_enabled_>>
  /\ UNCHANGED analyzer_vars

ReduceAtomicWord32Pair ==
  /\ reducer_pc = "AtomicWord32Pair"
  /\ \E folded \in IF index # <<>> /\ index[1].constant
                      THEN BOOLEAN ELSE {FALSE} :
       IF kind \in {"kStore", "kLoad"}
         THEN IF index = <<>>
                THEN index' = <<IntPtrConstant(offset)>> /\ offset' = 0
                ELSE IF offset # 0
                       THEN /\ index' = <<WordPtrAdd(index[1], offset,
                                                     folded)>>
                            /\ offset' = 0
                       ELSE UNCHANGED <<index, offset>>
         ELSE UNCHANGED <<index, offset>>
  /\ reducer_pc' = "reduced"
  /\ UNCHANGED <<configuration, lowering_enabled_, base, kind,
                 element_size_log2>>
  /\ UNCHANGED analyzer_vars

NextReducer ==
  \/ ReduceLoad
  \/ ReduceStore
  \/ ReduceAtomicWord32Pair

SpecReducer == InitReducer /\ [][NextReducer]_vars

\* The address an access with the current operands reads or writes:
\* base + (index << element_size_log2) + offset - (tagged ? kHeapObjectTag : 0),
\* in the arithmetic of the machine (64-bit words).
IndexWord == IF index = <<>> THEN WordFromInt32(0) ELSE index[1].value

EffectiveAddress ==
  WordAdd(WordAdd(WordAdd(base.value, WordShl(IndexWord, element_size_log2)),
                  WordFromInt32(offset)),
          WordFromInt32(IF kind.tagged_base THEN -kHeapObjectTag ELSE 0))

\* A call of SimplifyLoadStore with lowering enabled.
SimplifyStep ==
  /\ reducer_pc \in {"Load", "Store"}
  /\ reducer_pc' = "reduced"
  /\ lowering_enabled_

\* The untagging of the base overflows int32_t.
OffsetOverflows ==
  /\ configuration.kNeedsUntaggedBase
  /\ kind.tagged_base
  /\ offset < kMinInt + kHeapObjectTag

\* The offset of the operands cannot be encoded, or the access is atomic
\* with both an index and a non-zero offset.
NotEncodable ==
  \/ ~CanEncodeOffset(offset, kind.tagged_base)
  \/ kind.is_atomic /\ index # <<>> /\ offset # 0

(***************************************************************************)
(* C24.  Load/store simplification preserves the accessed address: with    *)
(* lowering enabled and no overflow of the 32-bit offset, the effective    *)
(* address of the rewritten operands is the one of the original operands,  *)
(* and whenever the original offset cannot be encoded (or the access is    *)
(* atomic with an index and a non-zero offset) the rewritten access has    *)
(* offset 0 and element_size_log2 0 and an index, which so carries the     *)
(* whole displacement.                                                     *)
(***************************************************************************)
C24_AddressPreserved ==
  [][(SimplifyStep /\ ~OffsetOverflows) =>
       /\ EffectiveAddress' = EffectiveAddress
       /\ NotEncodable =>
            /\ offset' = 0
            /\ element_size_log2' = 0
            /\ index' # <<>>]_vars

\* A tagged, scaled access with an offset has been rewritten for a target
\* that needs an untagged base: the base is bitcast, and the index holds
\* (7 << 3) + 8 - kHeapObjectTag.
C24_Witness ==
  /\ reducer_pc = "reduced"
  /\ lowering_enabled_
  /\ configuration.kNeedsUntaggedBase
  /\ base.rep = "WordPtr"
  /\ ~kind.tagged_base
  /\ offset = 0
  /\ element_size_log2 = 0
  /\ index = <<[constant |-> FALSE, value |-> WordFromInt32(63)]>>
====
